---- MODULE Spec2Model ----
(***************************************************************************)
(* State-machine model of dataleakhunter: the connector scans, the dedup   *)
(* gate on the events collection, the inline fan-out to the ticket and     *)
(* alert sinks and to the webhook broadcaster, and the SIEM export walker. *)
(***************************************************************************)
EXTENDS Integers, Sequences, FiniteSets, TLC

(***************************************************************************)
(* Bounds of the model.                                                    *)
(***************************************************************************)
\* highest value of the wall clock
MaxTime == 2
\* source records processed by all scans of one behaviour
MaxScanned == 2
\* scans started in one behaviour
MaxScans == 2
\* direct calls of a sink made outside a scan in one behaviour
MaxDirect == 2
\* run_export invocations in one behaviour
MaxRuns == 2
\* the page_limit a run_export invocation is given
PageLimit == 2
\* documents in the events collection an API client pages through
MaxStored == 3
\* the documents one round of the event stream fetches (100, scaled)
StreamBatch == 2
\* page walks an API client makes in one behaviour
MaxWalks == 2
\* webhook subscriptions ever registered in one behaviour
MaxHooks == 3
\* webhook subscriptions deleted in one behaviour
MaxDeleted == 1
\* detections in the list a direct call of make_event is given
MaxDetections == 3
\* rules in a patterns file
MaxRules == 3

\* the value of a status sub-field that is not set (None)
Unset == 0
\* the length make_event cuts the text to before it redacts (4000, scaled)
SnippetMax == 6

Procs == {1, 2}
Platforms == {"slack", "jira", "confluence", "trello", "teams"}
TicketSinks == {"jira", "glpi", "snow"}
AlertSinks == {"slack", "hook"}
Sinks == TicketSinks \cup AlertSinks \cup {"deliver"}

(***************************************************************************)
(* Pattern matching.  A text is a sequence of tokens; a compiled rule      *)
(* matches a set of tokens, and rx.search returns the first token of the   *)
(* text the rule matches.                                                  *)
(***************************************************************************)
PATTERNS ==
  << [label |-> "Password",      rx |-> {"hunter2"}],
     [label |-> "Credit Card",   rx |-> {"4111"}],
     [label |-> "Internal Note", rx |-> {"note"}] >>

RECURSIVE Search(_, _, _)
Search(rx, text, i) ==
  IF i > Len(text) THEN ""
  ELSE IF text[i] \in rx THEN text[i] ELSE Search(rx, text, i + 1)

RECURSIVE DetectFrom(_, _)
DetectFrom(k, text) ==
  IF k > Len(PATTERNS) THEN << >>
  ELSE LET mo == Search(PATTERNS[k].rx, text, 1)
       IN  (IF mo # "" THEN << [label |-> PATTERNS[k].label, match |-> mo] >>
                       ELSE << >>) \o DetectFrom(k + 1, text)

Detect(text) == DetectFrom(1, text)

(***************************************************************************)
(* What the remote platforms hold: the records a scan can be handed.       *)
(* `updated` is the source-supplied modification time (Unset: none).       *)
(* J1 appears twice: the issue before and after an edit outside the match. *)
(***************************************************************************)
SourceRecords ==
  { [platform |-> "slack", cid |-> "C1", key |-> "ts1", name |-> "general",
     text |-> <<"pw", "hunter2", "card", "4111">>, updated |-> Unset],
    [platform |-> "slack", cid |-> "C1", key |-> "ts2", name |-> "general",
     text |-> <<"hello">>, updated |-> Unset],
    [platform |-> "jira", cid |-> "J1", key |-> "J1", name |-> "J1",
     text |-> <<"note", "a">>, updated |-> 1],
    [platform |-> "jira", cid |-> "J1", key |-> "J1", name |-> "J1",
     text |-> <<"note", "b">>, updated |-> 2],
    [platform |-> "confluence", cid |-> "P1", key |-> "P1", name |-> "Runbook",
     text |-> <<"4111">>, updated |-> 2],
    [platform |-> "trello", cid |-> "K1", key |-> "K1", name |-> "b / l / card",
     text |-> <<"hunter2">>, updated |-> 2],
    [platform |-> "teams", cid |-> "T1/CH1", key |-> "m1", name |-> "team/chan",
     text |-> <<"note", "4111">>, updated |-> Unset] }

\* what the platforms of one deployment hold
Sources ==
  { {r \in SourceRecords : r.platform = "slack"},
    {r \in SourceRecords : r.platform = "jira"},
    {r \in SourceRecords : r.platform = "confluence"},
    {r \in SourceRecords : r.platform = "trello"},
    {r \in SourceRecords : r.platform = "teams"} }

(***************************************************************************)
(* Event construction.                                                     *)
(***************************************************************************)
\* hashlib.sha256 of the basis: collision-free, so the digest stands for
\* the basis it was computed from
sha256(basis) == [alg |-> "sha256", of |-> basis]

\* str.lower() on the severity and platform names the model uses
Lower(s) ==
  CASE s = "High" -> "high"
    [] s = "Medium" -> "medium"
    [] s = "Low" -> "low"
    [] s = "Teams" -> "teams"
    [] OTHER -> s

\* the characters of a string.  The words of the scanned texts, the ids and
\* the platform names stand for one character each; the strings below are
\* the ones that are made of several
Chars(s) ==
  CASE s = "" -> << >>
    [] s = "aa" -> <<"a", "a">>
    [] s = "ab" -> <<"a", "b">>
    [] s = "ba" -> <<"b", "a">>
    [] s = "*a" -> <<"*", "a">>
    [] s = "****" -> <<"*", "*", "*", "*">>
    [] s = "a,b" -> <<"a", ",", "b">>
    [] s = "C1|x" -> <<"C1", "|", "x">>
    [] s = "x|ts1" -> <<"x", "|", "ts1">>
    [] OTHER -> <<s>>

\* the order of the characters (their code points)
Code(c) ==
  CASE c = "*" -> 42
    [] c = "," -> 44
    [] c = "4111" -> 52
    [] c = "a" -> 97
    [] c = "b" -> 98
    [] c = "hunter2" -> 104
    [] c = "note" -> 110
    [] c = "|" -> 124
    [] OTHER -> 120

\* a < b for two strings, as Python compares them
RECURSIVE SeqLess(_, _)
SeqLess(a, b) ==
  IF b = << >> THEN FALSE
  ELSE IF a = << >> THEN TRUE
  ELSE IF Code(Head(a)) # Code(Head(b)) THEN Code(Head(a)) < Code(Head(b))
  ELSE SeqLess(Tail(a), Tail(b))

StrLess(a, b) == SeqLess(Chars(a), Chars(b))

\* sorted(S) for a set of strings
RECURSIVE SortedStrings(_)
SortedStrings(S) ==
  IF S = {} THEN << >>
  ELSE LET m == CHOOSE x \in S : \A y \in S \ {x} : StrLess(x, y)
       IN  << m >> \o SortedStrings(S \ {m})

\* sep.join(strs), in characters
RECURSIVE Join(_, _)
Join(strs, sep) ==
  IF strs = << >> THEN << >>
  ELSE IF Len(strs) = 1 THEN Chars(strs[1])
  ELSE Chars(strs[1]) \o Chars(sep) \o Join(Tail(strs), sep)

\* the characters of a text given as its words
RECURSIVE Flatten(_)
Flatten(text) ==
  IF text = << >> THEN << >> ELSE Chars(Head(text)) \o Flatten(Tail(text))

\* s[:n]
Take(s, n) == SubSeq(s, 1, IF Len(s) < n THEN Len(s) ELSE n)

\* the lower-cased first word of a rule label
Prefix(label) ==
  CASE label = "Password" -> "password"
    [] label = "PRIVATE KEY" -> "private"
    [] label = "Api Token" -> "api"
    [] label = "Credit Card" -> "credit"
    [] label = "Old Password" -> "old"
    [] label = "Internal Note" -> "internal"
    [] OTHER -> ""

\* a severity rule that makes every labelled detection a credential
AnyLabel(label) == label # ""

\* label.lower().startswith(("password","private","api","credit"))
CredentialLabel(label) == Prefix(label) \in {"password", "private", "api", "credit"}

\* str.replace(m, mask): the occurrences of m, left to right, none overlapping
RECURSIVE Replace(_, _, _)
Replace(s, m, mask) ==
  IF Len(s) < Len(m) THEN s
  ELSE IF SubSeq(s, 1, Len(m)) = m
       THEN mask \o Replace(SubSeq(s, Len(m) + 1, Len(s)), m, mask)
       ELSE << Head(s) >> \o Replace(Tail(s), m, mask)

\* utils.redact with the set of matches iterated in the given order:
\* every non-empty match is replaced by the mask in what the earlier
\* replacements left
RECURSIVE RedactIn(_, _)
RedactIn(text, order) ==
  IF order = << >> THEN text
  ELSE RedactIn(IF Head(order) # "" THEN Replace(text, Chars(Head(order)), Chars("****"))
                                   ELSE text,
                Tail(order))

\* utils.redact(text, matches); the scanned texts' matches are single words
\* that differ, so the order of the iteration makes no difference there
redact(text, matches) == RedactIn(text, SortedStrings(matches))

NoStatus ==
  [jira_key |-> Unset, glpi_id |-> Unset, snow_sys_id |-> Unset,
   slack_ts |-> Unset, slack_webhook_at |-> Unset, last_sync_at |-> Unset]

\* {d.get("match","") for d in detections if d.get("match")}
Matches(detections) ==
  {detections[i].match : i \in 1..Len(detections)} \ {""}

\* str(source_meta.get("pointer", ""))
Pointer(source_meta) ==
  IF "pointer" \in DOMAIN source_meta THEN source_meta.pointer ELSE ""

\* a fingerprint basis that takes the matches as the detections list them
FpBasisAsListed(platform, container, detections, source_meta) ==
  Chars(platform) \o Chars("|") \o Chars(container.id) \o Chars("|")
    \o Chars(Pointer(source_meta)) \o Chars("|")
    \o Join([i \in 1..Len(detections) |-> detections[i].match], ",")

\* fp_basis = f"{platform}|{container.get('id')}|{pointer}|{','.join(matches)}"
\* with matches the sorted set of the non-empty match strings
fp_basis(platform, container, detections, source_meta) ==
  Chars(platform) \o Chars("|") \o Chars(container.id) \o Chars("|")
    \o Chars(Pointer(source_meta)) \o Chars("|")
    \o Join(SortedStrings(Matches(detections)), ",")

\* make_event, its redact iterating the set of matches in the given order
make_event_in(platform, container, text, detections, source_meta, clock, order) ==
  [fingerprint |-> sha256(fp_basis(platform, container, detections, source_meta)),
   platform |-> platform,
   container |-> container,
   found_at |-> [kind |-> "date", t |-> clock],
   severity |-> IF \E i \in 1..Len(detections) :
                     CredentialLabel(detections[i].label)
                THEN "High" ELSE "Medium",
   detections |-> detections,
   snippet_redacted |-> RedactIn(Take(Flatten(text), SnippetMax), order),
   status |-> NoStatus,
   source_meta |-> source_meta]

make_event(platform, container, text, detections, source_meta, clock) ==
  make_event_in(platform, container, text, detections, source_meta, clock,
                SortedStrings(Matches(detections)))

\* the event a Slack, Jira, Confluence or Trello scan builds for record r;
\* Jira, Confluence and Trello then overwrite found_at with the source's
\* modification time when the source supplies one
ContainerType(platform) ==
  CASE platform = "slack" -> "channel"
    [] platform = "jira" -> "issue"
    [] platform = "confluence" -> "page"
    [] OTHER -> "card"

ScanEvent(r, clock) ==
  LET container == [kind |-> "dict", type |-> ContainerType(r.platform),
                    id |-> r.cid, name |-> r.name]
      meta == [pointer |-> r.key, updated |-> r.updated]
      ev == make_event(r.platform, container, r.text, Detect(r.text), meta, clock)
  IN  IF r.platform # "slack" /\ r.updated # Unset
      THEN [ev EXCEPT !.found_at = [kind |-> "date", t |-> r.updated]]
      ELSE ev

\* teams_connector._redact on token texts, then _fingerprint and the
\* document of _detect_and_store for one label: found_at is an ISO string,
\* container a string, and there are no detections and no status
TeamsEvent(r, label, clock) ==
  LET snippet == redact(Flatten(r.text), {t \in {r.text[i] : i \in 1..Len(r.text)} :
                   \E k \in 1..Len(PATTERNS) :
                     PATTERNS[k].label = label /\ t \in PATTERNS[k].rx})
      key == <<"teams", label, "", r.cid, r.key, snippet>>
  IN  [fingerprint |-> sha256(key),
       platform |-> "Teams",
       container |-> [kind |-> "str", type |-> "team/channel",
                      id |-> r.cid, name |-> r.name],
       found_at |-> [kind |-> "str", t |-> clock],
       severity |-> "Medium",
       detections |-> << >>,
       snippet_redacted |-> snippet,
       status |-> NoStatus,
       source_meta |-> [pointer |-> r.key, updated |-> Unset]]

(***************************************************************************)
(* The events collection (unique index on fingerprint).                    *)
(***************************************************************************)
Stored(store, fp) == {d \in store : d.fingerprint = fp}

\* insert_one on a collection without the unique index
InsertAlways(store, doc) == [store |-> store \cup {doc}, upserted |-> TRUE]

\* update_one({"fingerprint": fp}, {"$set": ev}, upsert=True)
UpsertSet(store, doc) ==
  [store |-> (store \ Stored(store, doc.fingerprint)) \cup {doc},
   upserted |-> Stored(store, doc.fingerprint) = {}]

\* update_one({"fingerprint": fp}, {"$setOnInsert": ev}, upsert=True):
\* the new collection and whether the result carries an upserted_id
UpsertOnInsert(store, doc) ==
  IF Stored(store, doc.fingerprint) # {}
  THEN [store |-> store, upserted |-> FALSE]
  ELSE [store |-> store \cup {doc}, upserted |-> TRUE]

\* replace_one({"fingerprint": fp}, {"status": {...}}): the document that
\* is left has no fingerprint
ReplaceByStatus(store, fp, upd) == store \ Stored(store, fp)

\* update_one({"fingerprint": fp}, {"$set": {"status": {...}}}): the whole
\* status sub-document is replaced
OverwriteStatus(store, fp, upd) ==
  {IF d.fingerprint = fp
   THEN [d EXCEPT !.status =
           [k \in DOMAIN d.status |-> IF k \in DOMAIN upd THEN upd[k] ELSE Unset]]
   ELSE d : d \in store}

\* update_one({"fingerprint": fp}, {"$set": {"status.<k>": v, ...}})
SetStatus(store, fp, upd) ==
  {IF d.fingerprint = fp
   THEN [d EXCEPT !.status =
           [k \in DOMAIN d.status |-> IF k \in DOMAIN upd THEN upd[k] ELSE d.status[k]]]
   ELSE d : d \in store}

(***************************************************************************)
(* Configuration (app.config.settings and the module-level environment     *)
(* reads of the alert modules): fixed for one behaviour.                   *)
(*   <sink>.on  : the create-on-detect flag is set and the credentials     *)
(*                 the sink needs are all configured                       *)
(*   snow_declared / dashboard_declared : whether the Settings class       *)
(*                 declares snow_* and dashboard_base_url                  *)
(***************************************************************************)
NoRouting == [k \in {} |-> ""]

\* the Settings class of config.py (it declares neither snow_* nor
\* dashboard_base_url) with the two alert modules enabled by their environment
ConfigShipped ==
  [jira |-> [on |-> FALSE, min |-> "Low"],
   glpi |-> [on |-> FALSE, min |-> "High"],
   snow |-> [on |-> FALSE, min |-> "Low"],
   snow_declared |-> FALSE, dashboard_declared |-> FALSE,
   slack |-> [on |-> TRUE, routing |-> NoRouting, default |-> "C9"],
   hook |-> [on |-> TRUE, routing |-> NoRouting, default |-> "https://hooks/default"]]

\* a deployment whose settings carry every field the sinks read:
\* the three ticket sinks on, the alerts off
ConfigTickets ==
  [jira |-> [on |-> TRUE, min |-> "Low"],
   glpi |-> [on |-> TRUE, min |-> "High"],
   snow |-> [on |-> TRUE, min |-> "Medium"],
   snow_declared |-> TRUE, dashboard_declared |-> TRUE,
   slack |-> [on |-> FALSE, routing |-> NoRouting, default |-> ""],
   hook |-> [on |-> FALSE, routing |-> NoRouting, default |-> ""]]

\* the same deployment with the alerts on and routed, the ticket sinks off
ConfigAlerts ==
  [jira |-> [on |-> FALSE, min |-> "Low"],
   glpi |-> [on |-> FALSE, min |-> "High"],
   snow |-> [on |-> FALSE, min |-> "Low"],
   snow_declared |-> TRUE, dashboard_declared |-> TRUE,
   slack |-> [on |-> TRUE,
              routing |-> [k \in {"rule:Credit Card", "platform:jira"} |->
                             IF k = "rule:Credit Card" THEN "#pci" ELSE "C7"],
              default |-> "C9"],
   hook |-> [on |-> TRUE,
             routing |-> [k \in {"severity:high"} |-> "https://hooks/urgent"],
             default |-> ""]]

\* the defaults of config.py: every create-on-detect and alert flag off
ConfigDefault ==
  [jira |-> [on |-> FALSE, min |-> "Low"],
   glpi |-> [on |-> FALSE, min |-> "High"],
   snow |-> [on |-> FALSE, min |-> "Low"],
   snow_declared |-> FALSE, dashboard_declared |-> FALSE,
   slack |-> [on |-> FALSE, routing |-> NoRouting, default |-> ""],
   hook |-> [on |-> FALSE, routing |-> NoRouting, default |-> ""]]

Configs == {ConfigShipped, ConfigTickets, ConfigAlerts}

\* the registered webhook subscriptions
Subscriptions ==
  { [id |-> 1, enabled |-> TRUE, secret |-> "s3cr3t",
     filters |-> [k \in {"platform"} |-> "slack"]] }

(***************************************************************************)
(* State.                                                                  *)
(***************************************************************************)
VARIABLES
  now,         \* the wall clock
  cfg,         \* the configuration of the process
  source,      \* the records the remote platforms hold
  events,      \* the events collection: a set of documents
  scanCursor,  \* the cursors collection: connector key -> value
  webhooks,    \* the integrations_webhooks collection
  deliveries,  \* the integrations_deliveries collection, in insertion order
  posts,       \* the HTTP requests made to webhook subscribers, in order
  registered,  \* webhook subscriptions registered so far
  remote,      \* per sink and fingerprint: tickets created / messages posted remotely
  pc,          \* per process: where its scan (or direct sink call) stands
  conn,        \* per process: the connector it runs
  ev,          \* per process: the event dict it holds
  todo,        \* per process: Teams documents still to store for the current message
  tries,       \* per process: the retry counter of the running _post_with_retry
  target,      \* per process: the destination the running alert call resolved
  direct,      \* per process: the running sink call was made outside a scan
  dedupe,      \* per process: the dedupe argument of the running alert call
  count,       \* per process: the scan's count of new events
  retval,      \* per process: what the last direct sink call gave its caller
  scanned,     \* source records handed to scans so far
  scans,       \* scans started so far
  directCalls, \* direct sink calls made so far
  isNew,       \* per fingerprint: upserts that returned an upserted_id / none
  dispatched,  \* per fingerprint: times a scan entered the fan-out block for it
  called,      \* per fingerprint: the adapters a scan's fan-out has called for it
  wpc,         \* the export walker: where run_export stands
  cur,         \* run_export's local cursor
  cursorStore, \* export_state: the persisted cursor of the destination
  page,        \* the events of the page just fetched
  nextCur,     \* the next_cursor of the page just fetched
  sendRes,     \* what the last client.send did with its page
  sentCount,   \* per fingerprint: times the event was in a page handed to client.send
  sendFailed,  \* some send so far failed or raised
  limit,       \* the page_limit of the running run_export
  runEnd,      \* how the last run_export ended
  runs,        \* run_export invocations so far
  run2,        \* a second run_export on the same destination key, in another thread
  lpc,         \* the API client: where its walk over GET /integrations/events stands
  query,       \* the API client: the parameters of its next request
  resp,        \* the API client: the last response it got
  returned,    \* per fingerprint: times the current walk was handed the event
  walks,       \* walks started so far
  call,        \* the last call of a pure function: its name and arguments
  result       \* what that call returned

\* what a sink call leaves alone of a scan's state
scanData == <<scanCursor, conn, todo, count, scanned, scans, isNew, dispatched>>
scanVars == <<events, pc, ev, scanData>>
sinkVars == <<remote, tries, target, direct, dedupe, retval, directCalls, called, deliveries,
              posts, registered>>
exportVars == <<wpc, cur, cursorStore, page, nextCur, sendRes, sentCount, sendFailed,
                limit, runEnd, runs, run2>>
listVars == <<lpc, query, resp, returned, walks>>
pureVars == <<call, result>>
vars == <<now, cfg, source, webhooks, scanVars, sinkVars, exportVars, listVars, pureVars>>

\* every fingerprint a scan of the modelled sources can produce
AllFps ==
  {ScanEvent(r, 1).fingerprint : r \in {x \in SourceRecords : x.platform # "teams"}}
    \cup {TeamsEvent(r, PATTERNS[k].label, 1).fingerprint :
            r \in {x \in SourceRecords : x.platform = "teams"}, k \in 1..Len(PATTERNS)}

NoEvent == [fingerprint |-> sha256(<< >>)]
\* what a sink call gave its caller: nothing yet, None, a value, or an exception
NoReturn == [kind |-> "none", v |-> 0]
ReturnNone == [kind |-> "None", v |-> 0]
Return(v) == [kind |-> "value", v |-> v]
Raise == [kind |-> "raise", v |-> 0]
\* what a direct caller holds once sink s has given it ret
Outcome(s, ret) == [sink |-> s, kind |-> ret.kind, v |-> ret.v]
\* an export cursor: absent, or the ISO-8601 text of a datetime
NoCursor == [kind |-> "none", t |-> 0]

\* no pure function has been called
NoCall == [fn |-> ""]

\* the parameters of GET /integrations/events: no filter, no cursor
NoQuery == [platform |-> "", severity |-> "", cursor |-> NoCursor, limit |-> 1]
\* no response received yet
NoResponse == [code |-> 0, events |-> << >>, next_cursor |-> NoCursor]

\* the state of a fresh process over the given deployments; the events
\* collection is set by each specification's initial predicate
InitWith(configs, sources, subs) ==
  /\ now = 1
  /\ cfg \in configs
  /\ source \in sources
  /\ webhooks = subs
  /\ scanCursor = [k \in {"slack_oldest", "jira_updated", "conf_modified", "teams"} |-> Unset]
  /\ deliveries = << >>
  /\ posts = << >>
  /\ registered = Cardinality(subs)
  /\ remote = [s \in TicketSinks \cup AlertSinks |-> [f \in AllFps |-> 0]]
  /\ pc = [p \in Procs |-> "idle"]
  /\ conn = [p \in Procs |-> "slack"]
  /\ ev = [p \in Procs |-> NoEvent]
  /\ todo = [p \in Procs |-> << >>]
  /\ tries = [p \in Procs |-> 0]
  /\ target = [p \in Procs |-> ""]
  /\ direct = [p \in Procs |-> FALSE]
  /\ dedupe = [p \in Procs |-> TRUE]
  /\ count = [p \in Procs |-> 0]
  /\ retval = [p \in Procs |-> Outcome("", NoReturn)]
  /\ scanned = 0
  /\ scans = 0
  /\ directCalls = 0
  /\ isNew = [f \in AllFps |-> [new |-> 0, dup |-> 0]]
  /\ dispatched = [f \in AllFps |-> 0]
  /\ called = [f \in AllFps |-> {}]
  /\ wpc = "idle"
  /\ cur = NoCursor
  /\ cursorStore = NoCursor
  /\ page = << >>
  /\ nextCur = NoCursor
  /\ sendRes = "none"
  /\ sentCount = [f \in AllFps |-> 0]
  /\ sendFailed = FALSE
  /\ limit = 1
  /\ runEnd = "none"
  /\ runs = 0
  /\ run2 = [pc |-> "idle", cur |-> NoCursor, next_cur |-> NoCursor, evs |-> << >>,
             limit |-> 1]
  /\ lpc = "idle"
  /\ query = NoQuery
  /\ resp = NoResponse
  /\ returned = [f \in AllFps |-> 0]
  /\ walks = 0
  /\ call = NoCall
  /\ result = NoCall

Init == InitWith(Configs, Sources, Subscriptions) /\ events = {}

(***************************************************************************)
(* Connector scans.                                                        *)
(***************************************************************************)
Bump(f, x) == [f EXCEPT ![x] = @ + 1]

\* the documents _detect_and_store builds for one Teams message: one per
\* rule that matches, in the order of PATTERNS
RECURSIVE TeamsDocs(_, _, _)
TeamsDocs(r, k, clock) ==
  IF k > Len(PATTERNS) THEN << >>
  ELSE (IF Search(PATTERNS[k].rx, r.text, 1) # ""
        THEN << TeamsEvent(r, PATTERNS[k].label, clock) >> ELSE << >>)
       \o TeamsDocs(r, k + 1, clock)

\* scan() is entered (trigger endpoint or scheduler job)
StartScan(p, platform) ==
  /\ pc[p] = "idle"
  /\ scans < MaxScans
  /\ scans' = scans + 1
  /\ pc' = [pc EXCEPT ![p] = "fetch"]
  /\ conn' = [conn EXCEPT ![p] = platform]
  /\ count' = [count EXCEPT ![p] = 0]
  /\ ev' = [ev EXCEPT ![p] = NoEvent]
  /\ direct' = [direct EXCEPT ![p] = FALSE]
  /\ dedupe' = [dedupe EXCEPT ![p] = TRUE]
  /\ UNCHANGED <<now, cfg, source, webhooks, events, scanCursor, todo, scanned, isNew,
                 dispatched, remote, tries, target, retval, directCalls, called,
                 deliveries, posts, registered,
                 exportVars, listVars, pureVars>>

\* the scan loop takes the next message, issue, page or card the platform
\* returned, runs the rules on it and builds the event
FetchRecord(p, r) ==
  /\ pc[p] = "fetch"
  /\ scanned < MaxScanned
  /\ r \in source
  /\ r.platform = conn[p]
  /\ scanned' = scanned + 1
  /\ IF conn[p] = "teams"
     THEN /\ todo' = [todo EXCEPT ![p] = TeamsDocs(r, 1, now)]
          /\ pc' = [pc EXCEPT ![p] = IF todo'[p] = << >> THEN "fetch" ELSE "t_store"]
          /\ ev' = ev
     ELSE /\ todo' = todo
          /\ IF Detect(r.text) = << >>
             THEN pc' = pc /\ ev' = ev
             ELSE /\ ev' = [ev EXCEPT ![p] = ScanEvent(r, now)]
                  /\ pc' = [pc EXCEPT ![p] = "upsert"]
  /\ UNCHANGED <<now, cfg, source, webhooks, events, scanCursor, conn, count, scans, isNew,
                 dispatched, sinkVars, exportVars, listVars, pureVars>>

\* res = events.update_one(..., {"$setOnInsert": ev}, upsert=True);
\* if res.upserted_id: count += 1 and the fan-out block is entered
Upsert(p) ==
  /\ pc[p] = "upsert"
  /\ LET res == UpsertOnInsert(events, ev[p])
         fp == ev[p].fingerprint
     IN  /\ events' = res.store
         /\ isNew' = [isNew EXCEPT ![fp] =
                        IF res.upserted THEN [@ EXCEPT !.new = @ + 1]
                                        ELSE [@ EXCEPT !.dup = @ + 1]]
         /\ IF res.upserted
            THEN /\ count' = Bump(count, p)
                 /\ dispatched' = Bump(dispatched, fp)
                 /\ pc' = [pc EXCEPT ![p] = "jira"]
                 /\ ev' = ev
            ELSE /\ UNCHANGED <<count, dispatched>>
                 /\ pc' = [pc EXCEPT ![p] = "fetch"]
                 /\ ev' = ev
  /\ UNCHANGED <<now, cfg, source, webhooks, scanCursor, conn, todo, scanned, scans,
                 sinkVars, exportVars, listVars, pureVars>>

\* teams_connector._store_event for the next document of the message: the
\* upsert, whose result is ignored; it returns True and the scan counts it
TeamsStore(p) ==
  /\ pc[p] = "t_store"
  /\ LET doc == Head(todo[p])
         res == UpsertOnInsert(events, doc)
     IN  /\ events' = res.store
         /\ isNew' = [isNew EXCEPT ![doc.fingerprint] =
                        IF res.upserted THEN [@ EXCEPT !.new = @ + 1]
                                        ELSE [@ EXCEPT !.dup = @ + 1]]
  /\ count' = Bump(count, p)
  /\ todo' = [todo EXCEPT ![p] = Tail(@)]
  /\ pc' = [pc EXCEPT ![p] = IF todo'[p] = << >> THEN "fetch" ELSE "t_store"]
  /\ UNCHANGED <<now, cfg, source, webhooks, scanCursor, conn, ev, scanned, scans,
                 dispatched, sinkVars, exportVars, listVars, pureVars>>

\* the key of the incremental cursor the connector writes when it is done
CursorKey(platform) ==
  CASE platform = "slack" -> "slack_oldest"
    [] platform = "jira" -> "jira_updated"
    [] platform = "confluence" -> "conf_modified"
    [] platform = "teams" -> "teams"
    [] OTHER -> ""

\* the platform has no more records: _set_cursor(<key>, now) and return count
FinishScan(p) ==
  /\ pc[p] = "fetch"
  /\ pc' = [pc EXCEPT ![p] = "idle"]
  /\ scanCursor' = IF CursorKey(conn[p]) = "" THEN scanCursor
                   ELSE [scanCursor EXCEPT ![CursorKey(conn[p])] = now]
  /\ ev' = [ev EXCEPT ![p] = NoEvent]
  /\ UNCHANGED <<now, cfg, source, webhooks, events, conn, todo, count, scanned, scans,
                 isNew, dispatched, sinkVars, exportVars, listVars, pureVars>>

\* slack_connector._retry(call, retries=3) around conversations_history, one
\* attempt per step: the page arrives, or the call raises one of the caught
\* exceptions (SlackApiError, URLError, gaierror, TimeoutError); the attempt
\* with i = retries - 1 re-raises, scan() prints, leaves the channel loop and
\* goes on to _set_cursor
ConnectorRetries == 3

History(p, o) ==
  /\ pc[p] = "fetch"
  /\ conn[p] = "slack"
  /\ o \in {"ok", "error"}
  /\ IF o = "ok"
     THEN /\ tries' = [tries EXCEPT ![p] = 0]
          /\ UNCHANGED <<pc, scanCursor>>
     ELSE IF tries[p] = ConnectorRetries - 1
          THEN /\ tries' = [tries EXCEPT ![p] = 0]
               /\ pc' = [pc EXCEPT ![p] = "idle"]
               /\ scanCursor' = [scanCursor EXCEPT !["slack_oldest"] = now]
          ELSE /\ tries' = [tries EXCEPT ![p] = @ + 1]
               /\ UNCHANGED <<pc, scanCursor>>
  /\ UNCHANGED <<now, cfg, source, webhooks, events, ev, conn, todo, count, scanned, scans,
                 isNew, dispatched, remote, target, direct, dedupe, retval, directCalls,
                 called, deliveries, posts, registered, exportVars, listVars, pureVars>>

\* time passes
Tick ==
  /\ now < MaxTime
  /\ now' = now + 1
  /\ UNCHANGED <<cfg, source, webhooks, scanVars, sinkVars, exportVars, listVars, pureVars>>

(***************************************************************************)
(* The fan-out block of a scan, and the sinks.                             *)
(***************************************************************************)
\* where a scan (or a direct caller) goes when sink s has returned or raised:
\* the five sinks share one try block, the webhook broadcaster has its own
AfterSink(p, s, ret) ==
  IF direct[p] THEN "idle"
  ELSE IF s = "deliver" THEN "fetch"
  ELSE IF ret.kind = "raise" THEN "deliver"
  ELSE CASE s = "jira" -> "glpi"
         [] s = "glpi" -> "snow"
         [] s = "snow" -> "slack"
         [] s = "slack" -> "hook"
         [] OTHER -> "deliver"

\* a scan's fan-out records which adapters it called; a direct call does not
NoteCalled(p, s) ==
  IF direct[p] THEN called
  ELSE [called EXCEPT ![ev[p].fingerprint] = @ \cup {s}]

\* the sink call of process p ends with ret: the caller moves on; a scan
\* discards what the sink returned, and drops the event after the last sink;
\* a direct caller keeps the dict it passed and what it got back
Leave(p, s, ret) ==
  /\ pc' = [pc EXCEPT ![p] = AfterSink(p, s, ret)]
  /\ ev' = IF AfterSink(p, s, ret) = "fetch"
           THEN [ev EXCEPT ![p] = NoEvent] ELSE ev
  /\ retval' = IF direct[p] THEN [retval EXCEPT ![p] = Outcome(s, ret)] ELSE retval
  /\ UNCHANGED <<direct, dedupe>>
  /\ target' = [target EXCEPT ![p] = ""]
  /\ tries' = [tries EXCEPT ![p] = 0]

\* the sink call of process p goes on (to its first post, or to a retry)
Stay(p, where, dest, n) ==
  /\ pc' = [pc EXCEPT ![p] = where]
  /\ target' = [target EXCEPT ![p] = dest]
  /\ tries' = [tries EXCEPT ![p] = n]
  /\ UNCHANGED <<ev, retval, direct, dedupe>>

_severity_rank(sev) ==
  CASE Lower(sev) = "low" -> 1
    [] Lower(sev) = "medium" -> 2
    [] Lower(sev) = "high" -> 3
    [] OTHER -> 2

_eligible(s, e) ==
  /\ cfg[s].on
  /\ _severity_rank(e.severity) >= _severity_rank(cfg[s].min)

StatusKey(s) ==
  CASE s = "jira" -> "jira_key"
    [] s = "glpi" -> "glpi_id"
    [] s = "snow" -> "snow_sys_id"
    [] s = "slack" -> "slack_ts"
    [] OTHER -> "slack_webhook_at"

\* what the remote ticket system can do with the one create request:
\*   created  2xx with an identifier      rejected  non-2xx answer
\*   no_id    2xx, no identifier in it    lost      exception, nothing created
\*   timeout  exception after the ticket was created
\*   no_session  (GLPI) initSession failed
TicketOutcomes(s) ==
  {"created", "rejected", "no_id", "lost", "timeout"}
    \cup (IF s = "glpi" THEN {"no_session"} ELSE {})

\* the identifier the remote system of sink s gives its n-th ticket for an
\* event (a Jira key, a GLPI id, a ServiceNow sys_id)
TicketId(s, n) ==
  (CASE s = "jira" -> 100 [] s = "glpi" -> 200 [] OTHER -> 300) + n

\* create_ticket_for_event(event, mdb) of sink s on the dict e, the remote
\* answering o and having made n tickets for this event so far:
\* what it returns and how many remote tickets it makes
create_ticket_for_event(s, e, o, n) ==
  IF s = "snow" /\ ~cfg.snow_declared THEN [ret |-> Raise, made |-> 0]
  ELSE IF ~_eligible(s, e) THEN [ret |-> ReturnNone, made |-> 0]
  ELSE IF e.status[StatusKey(s)] # Unset
       THEN [ret |-> Return(e.status[StatusKey(s)]), made |-> 0]
  ELSE IF s = "glpi" /\ o = "no_session" THEN [ret |-> ReturnNone, made |-> 0]
  ELSE IF ~cfg.dashboard_declared THEN [ret |-> Raise, made |-> 0]
  ELSE CASE o = "created" -> [ret |-> Return(TicketId(s, n + 1)), made |-> 1]
         [] o = "no_id" -> [ret |-> ReturnNone, made |-> 1]
         [] o = "timeout" -> [ret |-> Raise, made |-> 1]
         [] o = "lost" -> [ret |-> Raise, made |-> 0]
         [] OTHER -> [ret |-> ReturnNone, made |-> 0]

\* a sink that returns the identifier without writing it to the store
NoPersist(store, s, fp, r, clock) == store

\* the identifier is persisted when the create call returned one
TicketPersist(store, s, fp, r, clock) ==
  IF r.ret.kind = "value" /\ r.made = 1
  THEN SetStatus(store, fp, (StatusKey(s) :> r.ret.v) @@ ("last_sync_at" :> clock))
  ELSE store

TicketCall(p, s, o) ==
  /\ s \in TicketSinks
  /\ pc[p] = s
  /\ o \in TicketOutcomes(s)
  /\ LET fp == ev[p].fingerprint
         r == create_ticket_for_event(s, ev[p], o, remote[s][fp])
     IN  /\ remote' = [remote EXCEPT ![s][fp] = @ + r.made]
         /\ events' = TicketPersist(events, s, fp, r, now)
         /\ Leave(p, s, r.ret)
  /\ called' = NoteCalled(p, s)
  /\ UNCHANGED <<now, cfg, source, webhooks, scanData, directCalls, deliveries, posts, registered,
                 exportVars, listVars, pureVars>>

\* the primary rule label of an event ("" when it has no detections)
PrimaryLabel(e) == IF Len(e.detections) > 0 THEN e.detections[1].label ELSE ""

RoutingKeys(e) ==
  << "rule:" \o PrimaryLabel(e),
     "platform:" \o Lower(e.platform),
     "severity:" \o Lower(e.severity) >>

\* slack_alerts._resolve_channel: an id passes, a #name is looked up with
\* conversations_list, which finds it, does not find it, or raises
ChannelIds == {"C5", "C7", "C9"}
_resolve_channel(ref, lookup) ==
  IF ref = "" THEN ""
  ELSE IF ref \in ChannelIds THEN ref
  ELSE CASE lookup = "found" -> "C5"
         [] lookup = "missing" -> ""
         [] OTHER -> "RAISE"

RECURSIVE ChannelFrom(_, _, _)
ChannelFrom(e, i, lookup) ==
  IF i > Len(RoutingKeys(e)) THEN _resolve_channel(cfg.slack.default, lookup)
  ELSE IF RoutingKeys(e)[i] \in DOMAIN cfg.slack.routing
       THEN LET cid == _resolve_channel(cfg.slack.routing[RoutingKeys(e)[i]], lookup)
            IN  IF cid # "" THEN cid ELSE ChannelFrom(e, i + 1, lookup)
       ELSE ChannelFrom(e, i + 1, lookup)

_channel_for_event(e, lookup) == ChannelFrom(e, 1, lookup)

\* str.strip() on the strings the model passes to it
Strip(s) ==
  CASE s = " s3cr3t " -> "s3cr3t"
    [] s = " " -> ""
    [] OTHER -> s

\* slack_webhook._choose_url without an override: the first key whose value
\* is truthy wins and its value is stripped; DEFAULT_URL was stripped at import
RECURSIVE UrlFrom(_, _)
UrlFrom(e, i) ==
  IF i > Len(RoutingKeys(e)) THEN cfg.hook.default
  ELSE IF RoutingKeys(e)[i] \in DOMAIN cfg.hook.routing
          /\ cfg.hook.routing[RoutingKeys(e)[i]] # ""
       THEN Strip(cfg.hook.routing[RoutingKeys(e)[i]])
       ELSE UrlFrom(e, i + 1)

_choose_url(e) == UrlFrom(e, 1)

\* the dedupe check of send_event_alert: the marker of the stored document
MarkerSet(store, fp, s) ==
  \E d \in Stored(store, fp) : d.status[StatusKey(s)] # Unset

\* a send_event_alert without the dedupe check
NeverSkips(store, fp, s, dd) == FALSE

\* whether send_event_alert skips because of the marker
DedupeSkips(store, fp, s, dd) == dd /\ MarkerSet(store, fp, s)

\* slack_alerts.send_event_alert up to the first post: the skips, the
\* dedupe check and the choice of the channel
SlackAlert(p, lookup) ==
  /\ pc[p] = "slack"
  /\ lookup \in {"found", "missing", "raise"}
  /\ LET fp == ev[p].fingerprint
         t == _channel_for_event(ev[p], lookup)
         ret == IF ~cfg.slack.on THEN ReturnNone
                ELSE IF DedupeSkips(events, fp, "slack", dedupe[p]) THEN ReturnNone
                ELSE IF t = "RAISE" THEN Raise
                ELSE IF t = "" THEN ReturnNone
                ELSE NoReturn
     IN  IF ret = NoReturn
         THEN Stay(p, "slack_post", t, 0)
         ELSE Leave(p, "slack", ret)
  /\ called' = NoteCalled(p, "slack")
  /\ UNCHANGED <<now, cfg, source, webhooks, events, scanData, remote, directCalls,
                 deliveries, posts, registered,
                 exportVars, listVars, pureVars>>

\* one chat_postMessage of slack_alerts._post_with_retry:
\*   ok        the message is posted, the response carries its ts
\*   429       SlackApiError with status 429: retried while tries <= 3
\*   api_error any other SlackApiError: raised
\*   lost      a transport exception, nothing posted: raised
\*   timeout   a transport exception after Slack posted the message: raised
\* send_event_alert turns a raise into None and saves the marker after a post
SlackOutcomes == {"ok", "429", "api_error", "lost", "timeout"}

SlackRetries(o, n) == o = "429" /\ n + 1 <= 3

SlackPost(p, o) ==
  /\ pc[p] = "slack_post"
  /\ o \in SlackOutcomes
  /\ LET fp == ev[p].fingerprint
     IN  /\ remote' = [remote EXCEPT !["slack"][fp] =
                         IF o \in {"ok", "timeout"} THEN @ + 1 ELSE @]
         /\ events' = IF o = "ok"
                      THEN SetStatus(events, fp,
                             ("slack_ts" :> now) @@ ("last_sync_at" :> now))
                      ELSE events
         /\ IF SlackRetries(o, tries[p])
            THEN Stay(p, "slack_post", target[p], tries[p] + 1)
            ELSE Leave(p, "slack", IF o = "ok" THEN Return(now) ELSE ReturnNone)
  /\ UNCHANGED <<now, cfg, source, webhooks, scanData, directCalls, called, deliveries,
                 posts, registered, exportVars, listVars, pureVars>>

\* slack_webhook.send_event_alert up to the first post
HookAlert(p) ==
  /\ pc[p] = "hook"
  /\ LET fp == ev[p].fingerprint
         url == _choose_url(ev[p])
         skip == \/ ~cfg.hook.on
                 \/ DedupeSkips(events, fp, "hook", dedupe[p])
                 \/ url = ""
     IN  IF skip
         THEN Leave(p, "hook", ReturnNone)
         ELSE Stay(p, "hook_post", url, 0)
  /\ called' = NoteCalled(p, "hook")
  /\ UNCHANGED <<now, cfg, source, webhooks, events, scanData, remote, directCalls,
                 deliveries, posts, registered,
                 exportVars, listVars, pureVars>>

\* one requests.post of slack_webhook._post_with_retry:
\*   200      accepted               4xx   any other status
\*   429      retried while the incremented tries <= 3
\*   5xx      retried while tries < 3
\*   lost     RequestException, the request never arrived
\*   timeout  RequestException after Slack accepted the request
\* the two exceptions are retried until the incremented tries > 3
HookOutcomes == {"200", "429", "5xx", "4xx", "lost", "timeout"}

\* a retry loop without a budget
RetriesWithoutBudget(o, n) == o \in {"429", "5xx", "lost", "timeout"}

\* a retry loop that also retries the answers that are final
RetriesAnyAnswer(o, n) == n < 3

HookRetries(o, n) ==
  CASE o = "429" -> n + 1 <= 3
    [] o = "5xx" -> n < 3
    [] o \in {"lost", "timeout"} -> ~(n + 1 > 3)
    [] OTHER -> FALSE

HookPost(p, o) ==
  /\ pc[p] = "hook_post"
  /\ o \in HookOutcomes
  /\ LET fp == ev[p].fingerprint
     IN  /\ remote' = [remote EXCEPT !["hook"][fp] =
                         IF o \in {"200", "timeout"} THEN @ + 1 ELSE @]
         /\ events' = IF o = "200"
                      THEN SetStatus(events, fp,
                             ("slack_webhook_at" :> now) @@ ("last_sync_at" :> now))
                      ELSE events
         /\ IF HookRetries(o, tries[p])
            THEN Stay(p, "hook_post", target[p], tries[p] + 1)
            ELSE Leave(p, "hook", IF o = "200" THEN Return(1) ELSE ReturnNone)
  /\ UNCHANGED <<now, cfg, source, webhooks, scanData, directCalls, called, deliveries,
                 posts, registered, exportVars, listVars, pureVars>>

(***************************************************************************)
(* Webhook delivery.                                                       *)
(***************************************************************************)
Labels(e) == {e.detections[i].label : i \in 1..Len(e.detections)} \ {""}

\* a match that is content with one agreeing field
MatchAnyField(e, filters) ==
  \/ DOMAIN filters = {}
  \/ "platform" \in DOMAIN filters /\ Lower(filters["platform"]) = Lower(e.platform)
  \/ "severity" \in DOMAIN filters /\ Lower(filters["severity"]) = Lower(e.severity)
  \/ "labels" \in DOMAIN filters /\ filters["labels"] \cap Labels(e) # {}

match_filters(e, filters) ==
  IF DOMAIN filters = {} THEN TRUE
  ELSE /\ "platform" \in DOMAIN filters => Lower(filters["platform"]) = Lower(e.platform)
       /\ "severity" \in DOMAIN filters => Lower(filters["severity"]) = Lower(e.severity)
       /\ "labels" \in DOMAIN filters => filters["labels"] \cap Labels(e) # {}

\* datetime.isoformat() with the Z suffix, and datetime.fromisoformat back
FormatIso(dt) == [kind |-> "iso", t |-> dt.t]
ParseIso(c) == [kind |-> "date", t |-> c.t]

\* schemas._iso: a datetime is formatted, anything else passes unchanged
_iso(dt) == IF dt.kind = "date" THEN FormatIso(dt) ELSE dt

\* schemas.to_ecs: cont.get(...) raises when the container is a string
ToEcsRaises(d) == d.container.kind = "str"
to_ecs(d) ==
  [timestamp |-> _iso(d.found_at), id |-> d.fingerprint,
   reason |-> IF PrimaryLabel(d) # "" THEN PrimaryLabel(d) ELSE "Sensitive Data",
   platform |-> d.platform, severity |-> d.severity,
   container |-> d.container.id]

\* json.dumps(to_ecs(event)).encode("utf-8"): the bytes of the request body
json_dumps(x) == [json |-> x]

\* a signature computed over the event's fingerprint instead of the body
SignFingerprint(secret, body) ==
  [alg |-> "sha256=hmac", key |-> secret, msg |-> body.json.id]

\* _sign: "sha256=" + the HMAC-SHA256 hex digest of body under secret
_sign(secret, body) == [alg |-> "sha256=hmac", key |-> secret, msg |-> body]
NoSignature == [alg |-> "none"]

\* the request _deliver_one posts to subscription w for event e, and what
\* came of it
PostRequest(w, e, o) ==
  LET body == json_dumps(to_ecs(e))
  IN  [webhook_id |-> w.id, body |-> body, fingerprint |-> e.fingerprint,
       signature |-> IF w.secret # "" THEN _sign(w.secret, body) ELSE NoSignature,
       outcome |-> o]

\* a Delivery Record that reports every attempt as sent
RecordAlwaysSent(w, e, o) ==
  [webhook_id |-> w.id, event_fingerprint |-> e.fingerprint, status |-> "sent"]

\* the Delivery Record _deliver_one inserts for the outcome of its POST
DeliveryRecord(w, e, o) ==
  [webhook_id |-> w.id, event_fingerprint |-> e.fingerprint,
   status |-> CASE o = "2xx" -> "sent" [] o = "non2xx" -> "failed" [] OTHER -> "error"]

\* _deliver_one(event, w), the POST ending with o
_deliver_one(e, w, o) ==
  [request |-> PostRequest(w, e, o), record |-> DeliveryRecord(w, e, o)]

\* try_deliver_to_all over the subscriptions with id >= i, in id order
RECURSIVE DeliverFrom(_, _, _, _)
DeliverFrom(subs, e, outs, i) ==
  IF \A w \in subs : w.id < i THEN << >>
  ELSE LET ws == {w \in subs : w.id = i}
       IN  (IF ws # {} /\ (\A w \in ws : w.enabled /\ match_filters(e, w.filters))
            THEN << _deliver_one(e, CHOOSE w \in ws : TRUE, outs[i]) >>
            ELSE << >>) \o DeliverFrom(subs, e, outs, i + 1)

try_deliver_to_all(subs, e, outs) == DeliverFrom(subs, e, outs, 1)

DeliverOutcomes == {"2xx", "non2xx", "exc"}

\* try_deliver_to_all(ev) as a scan or deliver_once calls it; to_ecs raises
\* in the first _deliver_one when the event's container is a string
Deliver(p, outs) ==
  /\ pc[p] = "deliver"
  /\ outs \in [{w.id : w \in webhooks} -> DeliverOutcomes]
  /\ LET out == try_deliver_to_all(webhooks, ev[p], outs)
     IN  IF out # << >> /\ ToEcsRaises(ev[p])
         THEN /\ UNCHANGED <<deliveries, posts>>
              /\ Leave(p, "deliver", Raise)
         ELSE /\ deliveries' = deliveries \o [i \in 1..Len(out) |-> out[i].record]
              /\ posts' = posts \o [i \in 1..Len(out) |-> out[i].request]
              /\ Leave(p, "deliver", Return(Len(out)))
  /\ called' = NoteCalled(p, "deliver")
  /\ UNCHANGED <<now, cfg, source, webhooks, events, scanData, remote, directCalls,
                 registered, exportVars, listVars, pureVars>>

\* the registration requests subscribers send (POST /integrations/webhooks)
Registrations ==
  { [secret |-> " s3cr3t ", filters |-> [k \in {"platform"} |-> "Slack"]],
    [secret |-> "s3cr3t", filters |-> [k \in {} |-> ""]],
    [secret |-> " ", filters |-> [k \in {"severity"} |-> "high"]] }

\* register_webhook(url, secret, filters): the subscription gets a fresh id
RegisterWebhook(r) ==
  /\ registered < MaxHooks
  /\ r \in Registrations
  /\ registered' = registered + 1
  /\ webhooks' = webhooks \cup
       {[id |-> registered + 1, enabled |-> TRUE, secret |-> Strip(r.secret),
         filters |-> r.filters]}
  /\ UNCHANGED <<now, cfg, source, scanVars, remote, tries, target, direct, dedupe, retval,
                 directCalls, called, deliveries, posts, exportVars, listVars, pureVars>>

\* delete_webhook(webhook_id) of a subscription that exists
DeleteWebhook(w) ==
  /\ w \in webhooks
  /\ registered - Cardinality(webhooks) < MaxDeleted
  /\ webhooks' = webhooks \ {w}
  /\ UNCHANGED <<now, cfg, source, scanVars, sinkVars, exportVars, listVars, pureVars>>

(***************************************************************************)
(* A sink called outside a scan, as its signature allows: on a document    *)
(* read from the events collection or on a dict built by make_event.       *)
(***************************************************************************)
FreshEvents(clock) ==
  {ScanEvent(r, clock) : r \in {x \in source :
                                   x.platform # "teams" /\ Detect(x.text) # << >>}}

DirectCall(p, s, e, dd) ==
  /\ pc[p] = "idle"
  /\ directCalls < MaxDirect
  /\ s \in Sinks
  /\ e \in events \cup FreshEvents(now)
  /\ s = "deliver" => e \in events
  /\ dd \in BOOLEAN
  /\ dd = FALSE => s \in AlertSinks
  /\ directCalls' = directCalls + 1
  /\ pc' = [pc EXCEPT ![p] = s]
  /\ ev' = [ev EXCEPT ![p] = e]
  /\ direct' = [direct EXCEPT ![p] = TRUE]
  /\ dedupe' = [dedupe EXCEPT ![p] = dd]
  /\ UNCHANGED <<now, cfg, source, webhooks, events, scanData, remote, tries, target,
                 retval, called, deliveries, posts, registered,
                 exportVars, listVars, pureVars>>

(***************************************************************************)
(* The integrations API page and the SIEM export walker.                   *)
(***************************************************************************)
\* a cursor condition of {"$lte": dt}
InQueryLte(d, c) ==
  \/ c = NoCursor
  \/ d.found_at.kind = "date" /\ d.found_at.t <= ParseIso(c).t

\* _build_mongo_query with only the cursor given: no cursor, no condition;
\* {"found_at": {"$lt": dt}} matches only documents whose found_at is a date
InQuery(d, c) ==
  \/ c = NoCursor
  \/ d.found_at.kind = "date" /\ d.found_at.t < ParseIso(c).t

\* sort("found_at", -1): BSON orders a string below every date
BsonRank(v) == IF v.kind = "date" THEN 2 ELSE 1
SortsBefore(a, b) ==
  \/ BsonRank(a.found_at) > BsonRank(b.found_at)
  \/ BsonRank(a.found_at) = BsonRank(b.found_at) /\ a.found_at.t > b.found_at.t

Min(a, b) == IF a < b THEN a ELSE b

\* the document sets find(q).sort("found_at", -1).limit(n) can return:
\* documents with equal found_at come in an order the query does not fix
Pages(store, c, n) ==
  LET M == {d \in store : InQuery(d, c)}
  IN  {S \in SUBSET M : /\ Cardinality(S) = Min(n, Cardinality(M))
                        /\ \A x \in S, y \in M \ S : ~SortsBefore(y, x)}

RECURSIVE Sorted(_)
Sorted(S) ==
  IF S = {} THEN << >>
  ELSE LET d == CHOOSE x \in S : \A y \in S : ~SortsBefore(y, x)
       IN  << d >> \o Sorted(S \ {d})

\* _next_cursor: the found_at of the document when it is a datetime
_next_cursor(doc) ==
  IF doc.found_at.kind = "date" THEN FormatIso(doc.found_at) ELSE NoCursor

\* GET /integrations/events?limit=n&cursor=c answering with the documents S
list_events(S) ==
  LET docs == Sorted(S)
  IN  IF \E d \in S : ToEcsRaises(d)
      THEN [code |-> 500, events |-> << >>, next_cursor |-> NoCursor]
      ELSE [code |-> 200,
            events |-> [i \in 1..Len(docs) |-> to_ecs(docs[i])],
            next_cursor |-> IF docs = << >> THEN NoCursor
                            ELSE _next_cursor(docs[Len(docs)])]

\* _build_mongo_query(q): the platform parameter is lower-cased and compared
\* with the stored string, the severity is matched without case, the cursor
\* becomes {"found_at": {"$lt": dt}}
InListQuery(d, q) ==
  /\ q.platform # "" => d.platform = Lower(q.platform)
  /\ q.severity # "" => Lower(d.severity) = Lower(q.severity)
  /\ InQuery(d, q.cursor)

\* the document sets events.find(mongo_q).sort("found_at", -1).limit(q.limit)
\* can return
ListPages(store, q) ==
  LET M == {d \in store : InListQuery(d, q)}
  IN  {S \in SUBSET M : /\ Cardinality(S) = Min(q.limit, Cardinality(M))
                        /\ \A x \in S, y \in M \ S : ~SortsBefore(y, x)}

\* an API client starts paging through GET /integrations/events with the
\* given filters and limit, and no cursor
ListFirst(plat, sev, n) ==
  /\ lpc \in {"idle", "done", "failed"}
  /\ walks < MaxWalks
  /\ plat \in {"", "slack", "Jira"}
  /\ sev \in {"", "high"}
  /\ n \in 1..PageLimit
  /\ walks' = walks + 1
  /\ lpc' = "walking"
  /\ query' = [platform |-> plat, severity |-> sev, cursor |-> NoCursor, limit |-> n]
  /\ resp' = NoResponse
  /\ returned' = [f \in DOMAIN returned |-> 0]
  /\ UNCHANGED <<now, cfg, source, webhooks, scanVars, sinkVars, exportVars, pureVars>>

\* the client's next request is answered by list_events over the documents S;
\* the client goes on with the next_cursor it was given until a page is empty
ListNext(S) ==
  /\ lpc = "walking"
  /\ S \in ListPages(events, query)
  /\ LET data == list_events(S)
     IN  /\ resp' = data
         /\ returned' = [f \in DOMAIN returned |->
                returned[f] + Cardinality({i \in 1..Len(data.events) : data.events[i].id = f})]
         /\ IF data.code # 200
            THEN lpc' = "failed" /\ query' = query
            ELSE IF data.events = << >> \/ data.next_cursor = NoCursor
                 THEN lpc' = "done" /\ query' = query
                 ELSE lpc' = lpc /\ query' = [query EXCEPT !.cursor = data.next_cursor]
  /\ walks' = walks
  /\ UNCHANGED <<now, cfg, source, webhooks, scanVars, sinkVars, exportVars, pureVars>>

\* the query of one round of stream_events' generator: found_at after
\* last_seen (a datetime, so that only datetimes compare), the platform
\* parameter lower-cased, the severity without case
InStreamQuery(d, q) ==
  /\ d.found_at.kind = "date" /\ d.found_at.t > q.cursor.t
  /\ q.platform # "" => d.platform = Lower(q.platform)
  /\ q.severity # "" => Lower(d.severity) = Lower(q.severity)

\* the document sets events.find(q).sort("found_at", 1).limit(StreamBatch)
\* can return
StreamBatches(store, q) ==
  LET M == {d \in store : InStreamQuery(d, q)}
  IN  {S \in SUBSET M : /\ Cardinality(S) = Min(q.limit, Cardinality(M))
                        /\ \A x \in S, y \in M \ S : y.found_at.t >= x.found_at.t}

\* GET /integrations/events/stream without since: stream_events starts its
\* generator with last_seen = now; the client opens it on an empty store
OpenStream(plat, sev) ==
  /\ lpc = "idle"
  /\ events = {}
  /\ plat \in {"", "Jira"}
  /\ sev \in {"", "medium"}
  /\ lpc' = "streaming"
  /\ query' = [platform |-> plat, severity |-> sev,
               cursor |-> [kind |-> "date", t |-> now], limit |-> StreamBatch]
  /\ resp' = NoResponse
  /\ returned' = [f \in DOMAIN returned |-> 0]
  /\ walks' = walks
  /\ UNCHANGED <<now, cfg, source, webhooks, scanVars, sinkVars, exportVars, pureVars>>

\* one round of the generator: the batch S is pushed in ascending found_at
\* order, each message with the fingerprint as its id, and last_seen moves
\* to the found_at of the last document
StreamPoll(S) ==
  /\ lpc = "streaming"
  /\ S \in StreamBatches(events, query)
  /\ S # {}
  /\ LET last == CHOOSE x \in S : \A y \in S : y.found_at.t <= x.found_at.t
     IN  /\ query' = [query EXCEPT !.cursor = last.found_at]
         /\ resp' = [code |-> 200, events |-> [i \in 1..Len(Sorted(S)) |->
                                                to_ecs(Sorted(S)[Len(Sorted(S)) + 1 - i])],
                     next_cursor |-> NoCursor]
         /\ returned' = [f \in DOMAIN returned |->
                           returned[f] + Cardinality({d \in S : d.fingerprint = f})]
  /\ lpc' = lpc
  /\ walks' = walks
  /\ UNCHANGED <<now, cfg, source, webhooks, scanVars, sinkVars, exportVars, pureVars>>

\* run_export(mode, page_limit) is entered: cur = _get_cursor(mode)
StartRun(n) ==
  /\ wpc = "idle"
  /\ runs < MaxRuns
  /\ n \in 1..PageLimit
  /\ runs' = runs + 1
  /\ limit' = n
  /\ cur' = cursorStore
  /\ wpc' = "fetch"
  /\ runEnd' = "running"
  /\ UNCHANGED <<now, cfg, source, webhooks, scanVars, sinkVars, cursorStore, page,
                 nextCur, sendRes, sentCount, sendFailed, run2, listVars, pureVars>>

\* _fetch_page(cur, limit): the API is down or answers; any answer but 200
\* raises out of run_export; an empty page ends the run
FetchPage(S, api) ==
  /\ wpc = "fetch"
  /\ api \in {"up", "down"}
  /\ S \in Pages(events, cur, limit)
  /\ LET data == IF api = "down"
                 THEN [code |-> 503, events |-> << >>, next_cursor |-> NoCursor]
                 ELSE list_events(S)
     IN  /\ page' = data.events
         /\ nextCur' = data.next_cursor
         /\ IF data.code # 200
            THEN wpc' = "idle" /\ runEnd' = "raised"
            ELSE IF data.events = << >>
                 THEN wpc' = "idle" /\ runEnd' = "done"
                 ELSE wpc' = "send" /\ runEnd' = runEnd
  /\ UNCHANGED <<now, cfg, source, webhooks, scanVars, sinkVars, cur, cursorStore,
                 sendRes, sentCount, sendFailed, limit, runs, run2, listVars, pureVars>>

\* client.send(page) and the lines after it:
\*   accepted  the sink took the page     rejected  non-2xx, counted as failed
\*   raise     the client raised (transport error): run_export raises
\* then `if next_cur: cur = next_cur; _set_cursor(mode, cur)` else break
SendOutcomes == {"accepted", "rejected", "raise"}

SendPage(o) ==
  /\ wpc = "send"
  /\ o \in SendOutcomes
  /\ sentCount' = [f \in DOMAIN sentCount |->
                     sentCount[f] + Cardinality({i \in 1..Len(page) : page[i].id = f})]
  /\ sendRes' = o
  /\ sendFailed' = (sendFailed \/ o # "accepted")
  /\ page' = << >>
  /\ nextCur' = NoCursor
  /\ IF o = "raise"
     THEN wpc' = "idle" /\ runEnd' = "raised" /\ UNCHANGED <<cur, cursorStore>>
     ELSE IF nextCur # NoCursor
          THEN /\ cur' = nextCur
               /\ cursorStore' = nextCur
               /\ wpc' = "fetch"
               /\ runEnd' = runEnd
          ELSE wpc' = "idle" /\ runEnd' = "done" /\ UNCHANGED <<cur, cursorStore>>
  /\ UNCHANGED <<now, cfg, source, webhooks, scanVars, sinkVars, limit, runs, run2, listVars,
                 pureVars>>

\* a second run_export(mode, page_limit) on the same destination key, called
\* while the first may be anywhere in its loop (exports_run is a plain def
\* route, so each request runs in its own worker thread): the same code on its
\* own locals cur, evs, next_cur
Run2Start(n) ==
  /\ run2.pc = "idle"
  /\ n \in 1..PageLimit
  /\ run2' = [pc |-> "fetch", cur |-> cursorStore, next_cur |-> NoCursor, evs |-> << >>,
              limit |-> n]
  /\ UNCHANGED <<now, cfg, source, webhooks, scanVars, sinkVars, wpc, cur, cursorStore, page,
                 nextCur, sendRes, sentCount, sendFailed, limit, runEnd, runs, listVars,
                 pureVars>>

Run2Fetch(S, api) ==
  /\ run2.pc = "fetch"
  /\ api \in {"up", "down"}
  /\ S \in Pages(events, run2.cur, run2.limit)
  /\ LET data == IF api = "down"
                 THEN [code |-> 503, events |-> << >>, next_cursor |-> NoCursor]
                 ELSE list_events(S)
     IN  run2' = [run2 EXCEPT !.evs = data.events,
                              !.next_cur = data.next_cursor,
                              !.pc = IF data.code # 200 THEN "raised"
                                     ELSE IF data.events = << >> THEN "done" ELSE "send"]
  /\ UNCHANGED <<now, cfg, source, webhooks, scanVars, sinkVars, wpc, cur, cursorStore, page,
                 nextCur, sendRes, sentCount, sendFailed, limit, runEnd, runs, listVars,
                 pureVars>>

Run2Send(o) ==
  /\ run2.pc = "send"
  /\ o \in SendOutcomes
  /\ sentCount' = [f \in DOMAIN sentCount |->
                     sentCount[f] + Cardinality({i \in 1..Len(run2.evs) : run2.evs[i].id = f})]
  /\ sendFailed' = (sendFailed \/ o # "accepted")
  /\ IF o = "raise"
     THEN run2' = [run2 EXCEPT !.pc = "raised", !.evs = << >>] /\ UNCHANGED cursorStore
     ELSE IF run2.next_cur # NoCursor
          THEN /\ run2' = [run2 EXCEPT !.pc = "fetch", !.cur = run2.next_cur,
                                       !.evs = << >>, !.next_cur = NoCursor]
               /\ cursorStore' = run2.next_cur
          ELSE run2' = [run2 EXCEPT !.pc = "done", !.evs = << >>] /\ UNCHANGED cursorStore
  /\ UNCHANGED <<now, cfg, source, webhooks, scanVars, sinkVars, wpc, cur, page, nextCur,
                 sendRes, limit, runEnd, runs, listVars, pureVars>>

(***************************************************************************)
(* Specifications.                                                         *)
(***************************************************************************)
\* scans and their fan-out, over every deployment
Next ==
  \/ \E p \in Procs, platform \in Platforms : StartScan(p, platform)
  \/ \E p \in Procs, r \in SourceRecords : FetchRecord(p, r)
  \/ \E p \in Procs : Upsert(p)
  \/ \E p \in Procs : TeamsStore(p)
  \/ \E p \in Procs : FinishScan(p)
  \/ \E p \in Procs, s \in TicketSinks :
        \E o \in TicketOutcomes(s) : TicketCall(p, s, o)
  \/ \E p \in Procs, lookup \in {"found", "missing", "raise"} : SlackAlert(p, lookup)
  \/ \E p \in Procs, o \in SlackOutcomes : SlackPost(p, o)
  \/ \E p \in Procs : HookAlert(p)
  \/ \E p \in Procs, o \in HookOutcomes : HookPost(p, o)
  \/ \E p \in Procs, outs \in [{w.id : w \in webhooks} -> DeliverOutcomes] : Deliver(p, outs)
  \/ Tick

Spec == Init /\ [][Next]_vars

\* the sinks called one at a time on an event of a seeded store (the state
\* seed_sample_events.py or a scan whose sinks all declined leaves)
SeedStores == {{ScanEvent(r, 1)} : r \in {x \in source : Detect(x.text) # << >>}}

SinkSources == {{r \in SourceRecords : r.platform = "slack"},
                {r \in SourceRecords : r.platform = "jira" /\ r.updated = 1}}

SinkInit ==
  /\ InitWith(Configs, SinkSources, Subscriptions)
  /\ events \in SeedStores

SinkNext ==
  \/ \E p \in Procs, s \in Sinks, dd \in BOOLEAN :
        \E e \in events \cup FreshEvents(now) : DirectCall(p, s, e, dd)
  \/ \E p \in Procs, s \in TicketSinks :
        \E o \in TicketOutcomes(s) : TicketCall(p, s, o)
  \/ \E p \in Procs, lookup \in {"found", "missing", "raise"} : SlackAlert(p, lookup)
  \/ \E p \in Procs, o \in SlackOutcomes : SlackPost(p, o)
  \/ \E p \in Procs : HookAlert(p)
  \/ \E p \in Procs, o \in HookOutcomes : HookPost(p, o)
  \/ \E p \in Procs, outs \in [{w.id : w \in webhooks} -> DeliverOutcomes] : Deliver(p, outs)
  \/ Tick

SinkSpec == SinkInit /\ [][SinkNext]_vars

\* the export walker beside scans of a deployment on the default settings
ExportSources ==
  {{r \in SourceRecords : r.platform \in {"confluence", "trello"} \/ r.updated = 1},
   {r \in SourceRecords : r.platform = "teams" \/ r.updated = 1}}

ExportInit ==
  /\ InitWith({ConfigDefault}, ExportSources, {})
  /\ events = {}

ExportNext ==
  \/ \E p \in Procs, platform \in Platforms : StartScan(p, platform)
  \/ \E p \in Procs, r \in SourceRecords : FetchRecord(p, r)
  \/ \E p \in Procs : Upsert(p)
  \/ \E p \in Procs : TeamsStore(p)
  \/ \E p \in Procs : FinishScan(p)
  \/ \E p \in Procs, s \in TicketSinks :
        \E o \in TicketOutcomes(s) : TicketCall(p, s, o)
  \/ \E p \in Procs, outs \in [{w.id : w \in webhooks} -> DeliverOutcomes] : Deliver(p, outs)
  \/ \E n \in 1..PageLimit : StartRun(n)
  \/ \E S \in SUBSET events, api \in {"up", "down"} : FetchPage(S, api)
  \/ \E o \in SendOutcomes : SendPage(o)

ExportSpec == ExportInit /\ [][ExportNext]_vars

\* scans beside a client of the live event stream; the generator runs a
\* round every second for as long as the client stays connected
StreamSources ==
  {{r \in SourceRecords : r.platform = "jira"},
   {r \in SourceRecords : r.platform = "slack"}}

StreamInit ==
  /\ InitWith({ConfigDefault}, StreamSources, {})
  /\ events = {}

StreamNext ==
  \/ \E p \in Procs, platform \in {r.platform : r \in source} : StartScan(p, platform)
  \/ \E p \in Procs, r \in SourceRecords : FetchRecord(p, r)
  \/ \E p \in Procs : Upsert(p)
  \/ \E p \in Procs : FinishScan(p)
  \/ \E p \in Procs, s \in TicketSinks :
        \E o \in TicketOutcomes(s) : TicketCall(p, s, o)
  \/ \E p \in Procs, outs \in [{w.id : w \in webhooks} -> DeliverOutcomes] : Deliver(p, outs)
  \/ Tick
  \/ \E plat \in {"", "Jira"}, sev \in {"", "medium"} : OpenStream(plat, sev)
  \/ \E S \in SUBSET events : StreamPoll(S)

StreamSpec ==
  /\ StreamInit /\ [][StreamNext]_vars
  /\ WF_vars(\E S \in SUBSET events : StreamPoll(S))

\* scans beside subscribers that register and leave and callers of
\* POST /integrations/webhooks/deliver/{fingerprint}; one subscription was
\* disabled in the collection, one takes every event
InitialHooks ==
  { [id |-> 1, enabled |-> FALSE, secret |-> "", filters |-> [k \in {} |-> ""]],
    [id |-> 2, enabled |-> TRUE, secret |-> "", filters |-> [k \in {} |-> ""]] }

WebhookSources ==
  {{r \in SourceRecords : r.platform = "slack"},
   {r \in SourceRecords : r.platform = "teams"}}

WebhookInit ==
  /\ InitWith({ConfigDefault}, WebhookSources, InitialHooks)
  /\ events = {}

WebhookNext ==
  \/ \E p \in Procs, platform \in {r.platform : r \in source} : StartScan(p, platform)
  \/ \E p \in Procs, r \in SourceRecords : FetchRecord(p, r)
  \/ \E p \in Procs : Upsert(p)
  \/ \E p \in Procs : TeamsStore(p)
  \/ \E p \in Procs : FinishScan(p)
  \/ \E p \in Procs, s \in TicketSinks :
        \E o \in TicketOutcomes(s) : TicketCall(p, s, o)
  \/ \E p \in Procs, outs \in [{w.id : w \in webhooks} -> DeliverOutcomes] : Deliver(p, outs)
  \/ \E p \in Procs, e \in events : directCalls = 0 /\ DirectCall(p, "deliver", e, TRUE)
  \/ \E r \in Registrations : RegisterWebhook(r)
  \/ \E w \in webhooks : DeleteWebhook(w)

WebhookSpec == WebhookInit /\ [][WebhookNext]_vars

\* the documents the connectors can have stored
SeedDocs ==
  {ScanEvent(r, t) : r \in {x \in SourceRecords : x.platform # "teams" /\ Detect(x.text) # << >>},
                     t \in 1..MaxTime}
    \cup UNION {{TeamsDocs(r, 1, t)[i] : i \in 1..Len(TeamsDocs(r, 1, t))} :
                  r \in {x \in SourceRecords : x.platform = "teams"}, t \in 1..MaxTime}

\* match_filters applied to the events the connectors build and to filter
\* dictionaries with any of the three fields present
FilterDicts ==
  LET FilterKeys == {"platform", "severity", "labels"}
      FilterDict(D, plat, sev, labels) ==
        [k \in D |-> CASE k = "platform" -> plat [] k = "severity" -> sev [] OTHER -> labels]
  IN  {FilterDict(D, plat, sev, labels) :
         D \in SUBSET FilterKeys, plat \in {"slack", "Slack", "jira", "teams", ""},
         sev \in {"high", "Medium"},
         labels \in {{}, {"Credit Card"}, {"Password"}, {"Credit Card", "Internal Note"}}}

CallMatchFilters(e, filters) ==
  /\ call = NoCall
  /\ e \in SeedDocs
  /\ filters \in FilterDicts
  /\ call' = [fn |-> "match_filters", event |-> e, filters |-> filters]
  /\ result' = [fn |-> "match_filters", v |-> match_filters(e, filters)]
  /\ UNCHANGED <<now, cfg, source, webhooks, scanVars, sinkVars, exportVars, listVars>>

FilterInit ==
  /\ InitWith({ConfigDefault}, {{}}, {})
  /\ events = {}

FilterNext == \E e \in SeedDocs, filters \in FilterDicts : CallMatchFilters(e, filters)

FilterSpec == FilterInit /\ [][FilterNext]_vars

\* m occurs in s
Occurs(m, s) ==
  \E i \in 1..(Len(s) - Len(m) + 1) : SubSeq(s, i, i + Len(m) - 1) = m

\* make_event applied to inputs a connector can hand it: inputs that vary
\* what the fingerprint is made of and what it is not (the detections, their
\* order and duplicates, the pointer, the time); inputs that vary the text,
\* the matches found in it and the order in which redact comes to iterate
\* them; inputs that vary the rule labels; inputs whose matches, container
\* id and pointer contain the characters the basis is joined with
MakeEventInputs ==
  LET C1 == [kind |-> "dict", type |-> "channel", id |-> "C1", name |-> "general"]
      C2 == [kind |-> "dict", type |-> "channel", id |-> "C2", name |-> "random"]
      NoPointer == [author_id |-> "U1"]
      WithPointer(ptr) == [author_id |-> "U1", pointer |-> ptr]
      DetLists(labels, matches, n) ==
        UNION {[1..k -> [label : labels, match : matches]] : k \in 0..n}
      Orders(S) ==
        {o \in [1..Cardinality(S) -> S] :
           \A i, j \in 1..Cardinality(S) : o[i] = o[j] => i = j}
      Texts(n) == UNION {[1..k -> {"a", "*"}] : k \in 0..n}
      Found(txt) == {d \in DetLists({"Password"}, {"a", "aa", "*a"}, MaxDetections - 1) :
                       \A i \in 1..Len(d) : Occurs(Chars(d[i].match), txt)}
      FingerprintInputs ==
        {[platform |-> pl, container |-> c, text |-> <<"a", "b">>, detections |-> ds,
          source_meta |-> sm, clock |-> clk, order |-> SortedStrings(Matches(ds))] :
           pl \in {"slack", "jira"}, c \in {C1, C2},
           ds \in DetLists({"Password"}, {"", "a", "b"}, MaxDetections),
           sm \in {NoPointer, WithPointer(""), WithPointer("ts1")}, clk \in 1..MaxTime}
      RedactInputs ==
        UNION {UNION {{[platform |-> "slack", container |-> C1, text |-> txt,
                        detections |-> ds, source_meta |-> WithPointer("ts1"),
                        clock |-> 1, order |-> o] :
                         o \in Orders(Matches(ds))} :
                      ds \in Found(txt)} :
               txt \in Texts(SnippetMax + 1)}
      SeverityInputs ==
        {[platform |-> "slack", container |-> C1, text |-> <<"a">>, detections |-> ds,
          source_meta |-> WithPointer("ts1"), clock |-> 1,
          order |-> SortedStrings(Matches(ds))] :
           ds \in DetLists({"Password", "PRIVATE KEY", "Api Token", "Credit Card",
                            "Old Password", "Internal Note", ""}, {"a"}, MaxDetections - 1)}
      SeparatorInputs ==
        {[platform |-> "slack", container |-> [C1 EXCEPT !.id = cid],
          text |-> <<"a", ",", "b">>, detections |-> ds,
          source_meta |-> WithPointer(ptr), clock |-> 1,
          order |-> SortedStrings(Matches(ds))] :
           cid \in {"C1", "C1|x"}, ptr \in {"ts1", "x|ts1"},
           ds \in DetLists({"Password"}, {"a", "b", "a,b"}, MaxDetections)}
  IN  FingerprintInputs \cup RedactInputs \cup SeverityInputs \cup SeparatorInputs

CallMakeEvent(in) ==
  /\ call = NoCall
  /\ in \in MakeEventInputs
  /\ call' = [fn |-> "make_event", args |-> in]
  /\ result' = [fn |-> "make_event",
                v |-> make_event_in(in.platform, in.container, in.text, in.detections,
                                    in.source_meta, in.clock, in.order)]
  /\ UNCHANGED <<now, cfg, source, webhooks, scanVars, sinkVars, exportVars, listVars>>

EventInit ==
  /\ InitWith({ConfigDefault}, {{}}, {})
  /\ events = {}

EventNext == \E in \in MakeEventInputs : CallMakeEvent(in)

EventSpec == EventInit /\ [][EventNext]_vars

\* {primary.get("label") or "sensitive", ev.get("platform") or ""} - {""}
TagSet(d) ==
  {IF PrimaryLabel(d) # "" THEN PrimaryLabel(d) ELSE "sensitive", d.platform} \ {""}

\* to_ecs with its "tags": list(<set of strings>) lists the set in the order
\* of the string hashes, which the interpreter seeds anew in every process
to_ecs_in(d, order) == to_ecs(d) @@ [tags |-> order]

\* two conversions of one stored event, by process p1 and by process p2,
\* each for a webhook delivery or for a page of the event listing: each
\* process iterates the tag set in the order its hash seed gives, the same
\* order every time within one process
CallToEcs(e, p1, p2, o1, o2, sites) ==
  /\ call = NoCall
  /\ e \in SeedDocs
  /\ ~ToEcsRaises(e)
  /\ sites \in [1..2 -> {"_deliver_one", "list_events"}]
  /\ {o1, o2} \subseteq {o \in [1..Cardinality(TagSet(e)) -> TagSet(e)] :
                            \A i, j \in DOMAIN o : o[i] = o[j] => i = j}
  /\ p1 = p2 => o1 = o2
  /\ call' = [fn |-> "to_ecs", event |-> e, procs |-> <<p1, p2>>, sites |-> sites]
  /\ result' = [fn |-> "to_ecs", v |-> <<to_ecs_in(e, o1), to_ecs_in(e, o2)>>]
  /\ UNCHANGED <<now, cfg, source, webhooks, scanVars, sinkVars, exportVars, listVars>>

EcsInit ==
  /\ InitWith({ConfigDefault}, {{}}, {})
  /\ events = {}

EcsNext ==
  \E e \in SeedDocs, p1, p2 \in Procs, sites \in [1..2 -> {"_deliver_one", "list_events"}] :
    \E o1, o2 \in [1..Cardinality(TagSet(e)) -> TagSet(e)] :
      CallToEcs(e, p1, p2, o1, o2, sites)

EcsSpec == EcsInit /\ [][EcsNext]_vars

\* Loading the rules.  A patterns file maps labels to regular expression
\* sources; every connector module compiles it when it is imported.
\* the files of at most MaxRules rules, each label a key of its own; the
\* source "(note" is not a regular expression
RuleFiles ==
  LET RuleLabels == {"Password", "Credit Card", "Internal Note"}
      RegexSources == {"hunter2", "4111", "(note"}
  IN  UNION {{f \in [1..k -> [label : RuleLabels, rx : RegexSources]] :
                \A i, j \in 1..k : f[i].label = f[j].label => i = j} : k \in 0..MaxRules}

\* re.compile: the compiled pattern, or re.error for a source that is not a
\* regular expression (an unbalanced parenthesis)
re_compile(src) ==
  CASE src = "hunter2" -> [kind |-> "value", rx |-> {"hunter2"}]
    [] src = "4111" -> [kind |-> "value", rx |-> {"4111"}]
    [] OTHER -> [kind |-> "raise", rx |-> {}]

CompileRule(r) == [label |-> r.label, rx |-> re_compile(r.rx).rx]

\* the dict comprehension of the Slack, Jira, Confluence and Trello modules:
\* the first re.error leaves the comprehension and the module
CompileAll(raw) ==
  IF \E i \in 1..Len(raw) : re_compile(raw[i].rx).kind = "raise"
  THEN [kind |-> "raise", PATTERNS |-> << >>]
  ELSE [kind |-> "value", PATTERNS |-> [i \in 1..Len(raw) |-> CompileRule(raw[i])]]

\* the loader of the Teams module: a rule that does not compile is printed
\* and left out
RECURSIVE TeamsCompileFrom(_, _)
TeamsCompileFrom(raw, i) ==
  IF i > Len(raw) THEN << >>
  ELSE (IF re_compile(raw[i].rx).kind = "raise" THEN << >> ELSE << CompileRule(raw[i]) >>)
       \o TeamsCompileFrom(raw, i + 1)

_load_patterns(raw) == [kind |-> "value", PATTERNS |-> TeamsCompileFrom(raw, 1)]

LoadPatterns(platform, raw) ==
  IF platform = "teams" THEN _load_patterns(raw) ELSE CompileAll(raw)

\* one connector module is imported
ImportConnector(platform, raw) ==
  /\ call = NoCall
  /\ raw \in RuleFiles
  /\ call' = [fn |-> "import", platform |-> platform, raw |-> raw]
  /\ result' = [fn |-> "import", kind |-> LoadPatterns(platform, raw).kind,
                PATTERNS |-> LoadPatterns(platform, raw).PATTERNS]
  /\ UNCHANGED <<now, cfg, source, webhooks, scanVars, sinkVars, exportVars, listVars>>

\* the API process and the scheduler start by importing all five connectors
StartProcess(raw) ==
  /\ call = NoCall
  /\ raw \in RuleFiles
  /\ call' = [fn |-> "main", platform |-> "", raw |-> raw]
  /\ result' = [fn |-> "main",
                kind |-> IF \E platform \in Platforms : LoadPatterns(platform, raw).kind = "raise"
                         THEN "raise" ELSE "value",
                PATTERNS |-> << >>]
  /\ UNCHANGED <<now, cfg, source, webhooks, scanVars, sinkVars, exportVars, listVars>>

RulesInit ==
  /\ InitWith({ConfigDefault}, {{}}, {})
  /\ events = {}

RulesNext ==
  \/ \E platform \in Platforms, raw \in RuleFiles : ImportConnector(platform, raw)
  \/ \E raw \in RuleFiles : StartProcess(raw)

RulesSpec == RulesInit /\ [][RulesNext]_vars

\* an API client paging through a store that holds what earlier scans left
PageStores ==
  {S \in SUBSET SeedDocs :
     /\ Cardinality(S) <= MaxStored
     /\ \A a, b \in S : a.fingerprint = b.fingerprint => a = b}

PageInit ==
  /\ InitWith({ConfigDefault}, {{}}, {})
  /\ events \in PageStores

PageNext ==
  \/ \E plat \in {"", "slack", "Jira"}, sev \in {"", "high"}, n \in 1..PageLimit :
        ListFirst(plat, sev, n)
  \/ \E S \in SUBSET events : ListNext(S)

PageSpec == PageInit /\ [][PageNext]_vars

\* run_export invoked over a store that no scan changes meanwhile; every
\* fetch and every send it makes returns or raises
WalkNext ==
  \/ \E n \in 1..PageLimit : StartRun(n)
  \/ \E S \in SUBSET events, api \in {"up", "down"} : FetchPage(S, api)
  \/ \E o \in SendOutcomes : SendPage(o)

WalkSpec ==
  /\ PageInit /\ [][WalkNext]_vars
  /\ WF_vars(\E S \in SUBSET events, api \in {"up", "down"} : FetchPage(S, api))
  /\ WF_vars(\E o \in SendOutcomes : SendPage(o))

\* two run_export invocations on one destination key over a store at rest
RaceNext ==
  \/ \E n \in 1..PageLimit : StartRun(n)
  \/ \E S \in SUBSET events, api \in {"up", "down"} : FetchPage(S, api)
  \/ \E o \in SendOutcomes : SendPage(o)
  \/ \E n \in 1..PageLimit : Run2Start(n)
  \/ \E S \in SUBSET events, api \in {"up", "down"} : Run2Fetch(S, api)
  \/ \E o \in SendOutcomes : Run2Send(o)

RaceSpec == PageInit /\ [][RaceNext]_vars

\* the ticket sinks called on a stored event under every setting of the
\* create-on-detect flag with its credentials and of <SINK>_MIN_SEVERITY,
\* with and without the settings fields config.py leaves undeclared
ThresholdConfigs ==
  {[c EXCEPT !.jira = [on |-> on, min |-> m], !.glpi = [on |-> on, min |-> m],
             !.snow = [on |-> on, min |-> m]] :
     c \in {ConfigDefault, ConfigTickets}, on \in BOOLEAN,
     m \in {"Low", "Medium", "High", "Critical"}}

ThresholdInit ==
  /\ InitWith(ThresholdConfigs, SinkSources, {})
  /\ events \in SeedStores

ThresholdNext ==
  \/ \E p \in Procs, s \in TicketSinks : \E e \in events : DirectCall(p, s, e, TRUE)
  \/ \E p \in Procs, s \in TicketSinks :
        \E o \in TicketOutcomes(s) : TicketCall(p, s, o)
  \/ Tick

ThresholdSpec == ThresholdInit /\ [][ThresholdNext]_vars

\* the two alert sinks called on a stored event under every routing table
\* over the keys of the Slack event: each key absent, routed to a destination
\* of its own, or carrying a value that names none (a channel name Slack may
\* not know, a blank URL), with and without a default
RouteConfigs ==
  LET RouteKeys == {"rule:Password", "platform:slack", "severity:high"}
      Channel(k) == CASE k = "rule:Password" -> "C7"
                      [] k = "platform:slack" -> "C5"
                      [] OTHER -> "C9"
      Url(k) == CASE k = "rule:Password" -> "https://hooks/rule"
                  [] k = "platform:slack" -> "https://hooks/platform"
                  [] OTHER -> "https://hooks/severity"
  IN  {[ConfigAlerts EXCEPT
          !.slack = [on |-> TRUE,
                     routing |-> [k \in K |-> IF k \in B THEN "#ops" ELSE Channel(k)],
                     default |-> IF dflt THEN "C9" ELSE ""],
          !.hook = [on |-> TRUE,
                    routing |-> [k \in K |-> IF k \in B THEN " " ELSE Url(k)],
                    default |-> IF dflt THEN "https://hooks/default" ELSE ""]] :
         K \in SUBSET RouteKeys, B \in SUBSET RouteKeys, dflt \in BOOLEAN}

RouteInit ==
  /\ InitWith(RouteConfigs, SinkSources, {})
  /\ events \in SeedStores

RouteNext ==
  \/ \E p \in Procs, s \in AlertSinks, dd \in BOOLEAN :
        \E e \in events : DirectCall(p, s, e, dd)
  \/ \E p \in Procs, lookup \in {"found", "missing", "raise"} : SlackAlert(p, lookup)
  \/ \E p \in Procs, o \in SlackOutcomes : SlackPost(p, o)
  \/ \E p \in Procs : HookAlert(p)
  \/ \E p \in Procs, o \in HookOutcomes : HookPost(p, o)

RouteSpec == RouteInit /\ [][RouteNext]_vars

\* the three retry loops: the two alert sinks called on a stored event and a
\* Slack scan whose history calls can fail
RetryInit ==
  /\ InitWith({ConfigShipped}, {{r \in SourceRecords : r.platform = "slack"}}, {})
  /\ events \in SeedStores

RetryNext ==
  \/ \E p \in Procs, s \in AlertSinks :
        \E e \in events : DirectCall(p, s, e, TRUE)
  \/ \E p \in Procs, lookup \in {"found", "missing", "raise"} : SlackAlert(p, lookup)
  \/ \E p \in Procs, o \in SlackOutcomes : SlackPost(p, o)
  \/ \E p \in Procs : HookAlert(p)
  \/ \E p \in Procs, o \in HookOutcomes : HookPost(p, o)
  \/ \E p \in Procs : StartScan(p, "slack")
  \/ \E p \in Procs, o \in {"ok", "error"} : History(p, o)
  \/ \E p \in Procs : tries[p] = 0 /\ FinishScan(p)

\* every attempt of a loop returns or raises: the call under it has a timeout
RetrySpec ==
  /\ RetryInit /\ [][RetryNext]_vars
  /\ \A p \in Procs :
       /\ WF_vars(\E o \in SlackOutcomes : SlackPost(p, o))
       /\ WF_vars(\E o \in HookOutcomes : HookPost(p, o))
       /\ WF_vars(\E o \in {"ok", "error"} : History(p, o))

\* the search of a Jira or Confluence scan returns r: the issue or page
\* exists, and the JQL "updated >= '<cursor>'" or the CQL "lastmodified >=
\* <cursor>" built from the stored cursor covers it (no cursor: everything)
Covered(r) == r.updated >= scanCursor[CursorKey(r.platform)]

FetchSince(p, r) ==
  /\ r \in source
  /\ r.updated <= now
  /\ Covered(r)
  /\ FetchRecord(p, r)

\* the search page comes back empty, or the last page was handled: every
\* issue or page the query covers has been through the loop
ScanDone(p) ==
  /\ \A r \in source :
       (r.platform = conn[p] /\ r.updated <= now /\ Covered(r)) =>
         isNew[ScanEvent(r, now).fingerprint].new
           + isNew[ScanEvent(r, now).fingerprint].dup > 0
  /\ FinishScan(p)

\* r.status_code != 200 on the search: print, break, and the statements
\* after the loop run
SearchFailed(p) ==
  /\ conn[p] \in {"jira", "confluence"}
  /\ FinishScan(p)

\* the process running the scan is stopped (the container is restarted, the
\* worker is killed) wherever the scan is: nothing after that point runs,
\* the cursor included, and the process can be given a new scan
Interrupt(p) ==
  /\ pc[p] # "idle"
  /\ ~direct[p]
  /\ pc' = [pc EXCEPT ![p] = "idle"]
  /\ ev' = [ev EXCEPT ![p] = NoEvent]
  /\ todo' = [todo EXCEPT ![p] = << >>]
  /\ tries' = [tries EXCEPT ![p] = 0]
  /\ target' = [target EXCEPT ![p] = ""]
  /\ UNCHANGED <<now, cfg, source, webhooks, events, scanCursor, conn, count, scanned, scans,
                 isNew, dispatched, remote, direct, dedupe, retval, directCalls, called,
                 deliveries, posts, registered, exportVars, listVars, pureVars>>

\* the deployment with the alert sinks on, an issue last updated at time 1 and a page last
\* modified at time 2; the scans of one connector do not overlap
CursorInit ==
  /\ InitWith({ConfigAlerts},
              {{r \in SourceRecords : \/ r.platform = "jira" /\ r.updated = 1
                                      \/ r.platform = "confluence"}}, {})
  /\ events = {}

CursorNext ==
  \/ \E p \in Procs, platform \in {"jira", "confluence"} :
        /\ \A q \in Procs : pc[q] # "idle" => conn[q] # platform
        /\ StartScan(p, platform)
  \/ \E p \in Procs, r \in SourceRecords : FetchSince(p, r)
  \/ \E p \in Procs : Upsert(p)
  \/ \E p \in Procs : ScanDone(p)
  \/ \E p \in Procs : SearchFailed(p)
  \/ \E p \in Procs : Interrupt(p)
  \/ \E p \in Procs, s \in TicketSinks :
        \E o \in TicketOutcomes(s) : TicketCall(p, s, o)
  \/ \E p \in Procs, lookup \in {"found", "missing", "raise"} : SlackAlert(p, lookup)
  \/ \E p \in Procs, o \in SlackOutcomes : SlackPost(p, o)
  \/ \E p \in Procs : HookAlert(p)
  \/ \E p \in Procs, o \in HookOutcomes : HookPost(p, o)
  \/ \E p \in Procs, outs \in [{w.id : w \in webhooks} -> DeliverOutcomes] : Deliver(p, outs)
  \/ Tick

CursorSpec == CursorInit /\ [][CursorNext]_vars

(***************************************************************************)
(* Properties.                                                             *)
(***************************************************************************)
FanOutPcs == {"jira", "glpi", "snow", "slack", "slack_post", "hook", "hook_post", "deliver"}
PostPc(s) == IF s = "slack" THEN "slack_post" ELSE "hook_post"

\* C1: whatever the interleaving of the scans, of all insert-if-absent
\* attempts made with one fingerprint exactly one observes an upserted_id,
\* every other observes none, and the store holds exactly one record with
\* that fingerprint.
DedupExactlyOne ==
  \A f \in AllFps :
    /\ Cardinality(Stored(events, f)) <= 1
    /\ isNew[f].new + isNew[f].dup >= 1 =>
         /\ isNew[f].new = 1
         /\ Cardinality(Stored(events, f)) = 1

\* C1 witness: one scan inserted the event and is still in its fan-out while
\* the other scan's upsert of the same fingerprint found it present
ConcurrentDuplicate ==
  \E p, q \in Procs :
    /\ p # q
    /\ pc[p] \in FanOutPcs /\ ~direct[p]
    /\ pc[q] = "fetch" /\ ev[q] # NoEvent
    /\ ev[q].fingerprint = ev[p].fingerprint
    /\ isNew[ev[q].fingerprint] = [new |-> 1, dup |-> 1]

\* C2: every step leaves every stored record as it is, except that a sink
\* working on the record's event may change the record's status and nothing
\* else; in particular an upsert with a stored fingerprint changes nothing.
FrameStored ==
  [][\A d \in events :
       \/ d \in events'
       \/ /\ \E p \in Procs : /\ pc[p] \in TicketSinks \cup {"slack_post", "hook_post"}
                              /\ ev[p].fingerprint = d.fingerprint
          /\ \E d2 \in events' : /\ d2.status # d.status
                                 /\ [d2 EXCEPT !.status = d.status] = d]_vars

\* C2 witness: an upsert whose event has a stored fingerprint but another
\* found_at and another text has just found the fingerprint present
SameFingerprintOtherContent ==
  \E p \in Procs, d \in events :
    /\ pc[p] = "fetch" /\ ev[p] # NoEvent
    /\ ev[p].fingerprint = d.fingerprint
    /\ ev[p].found_at # d.found_at
    /\ ev[p].snippet_redacted # d.snippet_redacted
    /\ isNew[d.fingerprint].dup >= 1

\* C3 (as claimed): for every connector the fan-out is entered exactly once
\* for each insert that created the record, and never for an insert that
\* found the fingerprint present.
FanOutOncePerInsert ==
  \A f \in AllFps : dispatched[f] = isNew[f].new

\* C4 (as claimed): once the fan-out of a new event is over, every adapter
\* has been called for it, whatever the other adapters raised or returned.
AllSinksCalled ==
  \A f \in AllFps :
    (dispatched[f] >= 1 /\ \A p \in Procs : ev[p].fingerprint # f)
      => called[f] = Sinks

Eligible(s, e) == (s = "snow" => cfg.snow_declared) /\ _eligible(s, e)

CursorOnlyAfterAccepted ==
  [][cursorStore' # cursorStore => sendRes' = "accepted"]_vars

\* C9 (as claimed): every stored event is sent at least once by repeated
\* runs.  A run fetches only events the persisted cursor admits, and the
\* cursor only moves down, so whenever the walker is idle every stored event
\* not yet handed to the sink must still be one the cursor admits.
NoEventStranded ==
  \A d \in events :
    (wpc = "idle" /\ cursorStore # NoCursor /\ sentCount[d.fingerprint] = 0)
      => InQuery(d, cursorStore)

\* C10: as long as every send was accepted, no event has been handed to the
\* sink more than once, over all runs made.
NoDuplicateSend ==
  ~sendFailed => \A f \in AllFps : sentCount[f] <= 1

\* C10 witness: two runs were made, every send was accepted, the cursor is
\* persisted and two events have been sent, each once
TwoRunsNoDuplicate ==
  /\ ~sendFailed
  /\ runs = 2 /\ wpc = "idle" /\ runEnd = "done"
  /\ cursorStore # NoCursor
  /\ Cardinality({f \in AllFps : sentCount[f] = 1}) >= 2

\* the documents of the store a walk with the client's filters is about
Matching(store, q) == {d \in store : InListQuery(d, [q EXCEPT !.cursor = NoCursor])}

\* C11 (as claimed): every page holds at most limit events, newest first,
\* and its next_cursor is the found_at of its last event; and a walk that
\* followed next_cursor down to an empty page was handed every matching
\* event exactly once.
PaginationContract ==
  /\ resp.code = 200 =>
       /\ Len(resp.events) <= query.limit
       /\ \A i, j \in 1..Len(resp.events) :
            i < j => resp.events[i].timestamp.t >= resp.events[j].timestamp.t
       /\ resp.events # << >> =>
            resp.next_cursor = resp.events[Len(resp.events)].timestamp
  /\ (lpc = "done" /\ resp.events = << >>) =>
       \A d \in Matching(events, query) : returned[d.fingerprint] = 1

\* the requests to subscription id for the event with fingerprint f
PostsTo(log, id, f) ==
  {i \in 1..Len(log) : log[i].webhook_id = id /\ log[i].fingerprint = f}

\* C12: every POST to a subscription has its one Delivery Record, in the
\* same position of the collection, for the same subscription and event,
\* whose status is sent iff the answer was 2xx, failed iff it was another
\* status and error iff the POST raised; no step changes or removes a
\* record that is in the collection.
OneRecordPerAttempt ==
  [][/\ Len(deliveries') >= Len(deliveries)
     /\ \A i \in 1..Len(deliveries) : deliveries'[i] = deliveries[i]
     /\ Len(deliveries') = Len(posts')
     /\ \A i \in 1..Len(posts') :
          /\ deliveries'[i].webhook_id = posts'[i].webhook_id
          /\ deliveries'[i].event_fingerprint = posts'[i].fingerprint
          /\ deliveries'[i].status = "sent" <=> posts'[i].outcome = "2xx"
          /\ deliveries'[i].status = "failed" <=> posts'[i].outcome = "non2xx"
          /\ deliveries'[i].status = "error" <=> posts'[i].outcome = "exc"]_vars

\* C12 witness: the collection holds a sent, a failed and an error record
ThreeStatuses ==
  \E i, j, k \in 1..Len(deliveries) :
    /\ deliveries[i].status = "sent" /\ posts[i].outcome = "2xx"
    /\ deliveries[j].status = "failed" /\ posts[j].outcome = "non2xx"
    /\ deliveries[k].status = "error" /\ posts[k].outcome = "exc"

\* C13 (as claimed): one try_deliver_to_all makes exactly one POST to every
\* subscription that is enabled and matches the event, and none to any
\* other subscription, whatever the POSTs to the other subscriptions came to.
OnePostPerMatching ==
  [][\A p \in Procs :
       (pc[p] = "deliver" /\ pc'[p] # "deliver") =>
         LET new == (Len(posts) + 1)..Len(posts')
         IN  /\ \A w \in webhooks :
                  Cardinality({i \in new : posts'[i].webhook_id = w.id}) =
                    IF w.enabled /\ match_filters(ev[p], w.filters) THEN 1 ELSE 0
             /\ \A i \in new : /\ posts'[i].fingerprint = ev[p].fingerprint
                                /\ \E w \in webhooks : w.id = posts'[i].webhook_id]_vars

\* C15: every POST made to a subscription carries the signature header iff
\* the subscription has a secret, and the header is the HMAC-SHA256 under
\* that secret of the body the same request carries.
SignedIffSecret ==
  [][\A i \in (Len(posts) + 1)..Len(posts') :
       \E w \in webhooks :
         /\ w.id = posts'[i].webhook_id
         /\ posts'[i].signature # NoSignature <=> w.secret # ""
         /\ w.secret # "" =>
              posts'[i].signature =
                [alg |-> "sha256=hmac", key |-> w.secret, msg |-> posts'[i].body]]_vars

\* C15 witness: one event went out signed to a subscription registered with
\* a secret and unsigned to a subscription without one
SignedAndUnsigned ==
  \E i, j \in 1..Len(posts) :
    /\ posts[i].fingerprint = posts[j].fingerprint
    /\ posts[i].signature # NoSignature
    /\ posts[i].signature.key = "s3cr3t"
    /\ posts[i].signature.msg = posts[i].body
    /\ posts[j].signature = NoSignature

\* C16 (as claimed): for a stored event and a subscription that has been
\* registered and enabled all along and matches it, once no scan is in the
\* fan-out of the event, and nobody asked for a redelivery, the subscription
\* got exactly one POST and one Delivery Record for the event, and the
\* store holds the event once.
OneAutomaticDelivery ==
  \A d \in events :
    /\ Cardinality(Stored(events, d.fingerprint)) = 1
    /\ \A w \in webhooks :
         (/\ w \in InitialHooks /\ w.enabled /\ match_filters(d, w.filters)
          /\ directCalls = 0
          /\ \A p \in Procs : ~(pc[p] \in FanOutPcs /\ ev[p].fingerprint = d.fingerprint))
           => /\ Cardinality(PostsTo(posts, w.id, d.fingerprint)) = 1
              /\ Cardinality({i \in 1..Len(deliveries) :
                    /\ deliveries[i].webhook_id = w.id
                    /\ deliveries[i].event_fingerprint = d.fingerprint}) = 1

\* C14: match_filters is true iff the filters are empty, or every field
\* that is present agrees with the event: the platform and the severity
\* equal the event's (letter case apart), and one of the requested labels
\* is a detection label of the event; in particular {severity: high}
\* rejects a medium event, {labels: [Credit Card]} accepts an event with a
\* Credit Card detection and rejects one with only a Password detection,
\* and empty filters accept every event.
MatchFiltersContract ==
  call.fn = "match_filters" =>
    LET e == call.event
        f == call.filters
        has(k) == k \in DOMAIN f
        labels == {e.detections[i].label : i \in 1..Len(e.detections)}
    IN  /\ result.v <=>
             \/ f = [k \in {} |-> ""]
             \/ /\ has("platform") => Lower(f["platform"]) = Lower(e.platform)
                /\ has("severity") => Lower(f["severity"]) = Lower(e.severity)
                /\ has("labels") => \E l \in f["labels"] : l \in labels
        /\ (DOMAIN f = {"severity"} /\ f["severity"] = "high" /\ e.severity = "Medium")
             => ~result.v
        /\ (DOMAIN f = {"labels"} /\ f["labels"] = {"Credit Card"})
             => (result.v <=> "Credit Card" \in labels)
        /\ DOMAIN f = {} => result.v

\* C14 witness: a subscription that asks for Credit Card rejected an event
\* whose only detection is a Password
LabelFilterRejects ==
  /\ call.fn = "match_filters"
  /\ DOMAIN call.filters = {"labels"}
  /\ call.filters["labels"] = {"Credit Card"}
  /\ Len(call.event.detections) = 1
  /\ call.event.detections[1].label = "Password"
  /\ result.v = FALSE

\* the detections that carry the matches of S and nothing else, in one order
CanonicalDetections(S) ==
  [i \in 1..Cardinality(S) |-> [label |-> "", match |-> SortedStrings(S)[i]]]

\* C17: the fingerprint make_event returns is the one it returns for the
\* call that is given nothing but the platform, the container id, the
\* pointer ("" when source_meta has none) and the set of the non-empty
\* match strings: the time of the call, the order of the detections, their
\* duplicates and every other argument make no difference.
FingerprintDeterminism ==
  call.fn = "make_event" =>
    LET a == call.args
        ptr == IF "pointer" \in DOMAIN a.source_meta THEN a.source_meta.pointer ELSE ""
        S == {a.detections[i].match : i \in 1..Len(a.detections)} \ {""}
    IN  result.v.fingerprint =
          make_event(a.platform, [id |-> a.container.id], << >>,
                     CanonicalDetections(S), [pointer |-> ptr], 0).fingerprint

\* C17 witness: a call at a later time, without a pointer, whose three
\* detections list one match twice and the matches in descending order,
\* returned the fingerprint of the call with an empty pointer and the two
\* matches once each
ReorderedSameFingerprint ==
  /\ call.fn = "make_event"
  /\ call.args.clock = MaxTime
  /\ "pointer" \notin DOMAIN call.args.source_meta
  /\ Len(call.args.detections) = 3
  /\ call.args.detections[1].match = "b"
  /\ call.args.detections[2].match = "a"
  /\ call.args.detections[3].match = "b"
  /\ result.v.fingerprint =
       make_event(call.args.platform, call.args.container, << >>,
                  <<[label |-> "", match |-> "a"], [label |-> "", match |-> "b"]>>,
                  [pointer |-> ""], 1).fingerprint

\* C18 (as claimed): the snippet_redacted make_event builds holds no
\* occurrence of any matched string and is no longer than the maximum
\* snippet length.
RedactionCorrect ==
  call.fn = "make_event" =>
    /\ \A m \in Matches(call.args.detections) :
         ~Occurs(Chars(m), result.v.snippet_redacted)
    /\ Len(result.v.snippet_redacted) <= SnippetMax

\* C19: the severity make_event sets is high when one of the detection
\* labels starts, letter case apart, with password, private, api or credit,
\* and medium otherwise; it is never anything else.
SeverityRule ==
  call.fn = "make_event" =>
    /\ result.v.severity \in {"High", "Medium"}
    /\ Lower(result.v.severity) = "high" <=>
         \E i \in 1..Len(call.args.detections) :
           call.args.detections[i].label \in
             {"Password", "PRIVATE KEY", "Api Token", "Credit Card"}

\* C19 witness: two detections, the second of which is an API token, made
\* the event high, the first alone would have left it medium
EscalatedByOneLabel ==
  /\ call.fn = "make_event"
  /\ Len(call.args.detections) = 2
  /\ call.args.detections[1].label = "Internal Note"
  /\ call.args.detections[2].label = "Api Token"
  /\ result.v.severity = "High"

\* the rules of a file that compile, compiled, in file order
ValidRules(raw) ==
  LET ok == SelectSeq(raw, LAMBDA r : re_compile(r.rx).kind = "value")
  IN  [i \in 1..Len(ok) |-> CompileRule(ok[i])]

\* C20 (as claimed): whatever the patterns file holds, importing a
\* connector succeeds and leaves it with exactly the rules of the file that
\* compile, and the process that imports the connectors starts.
InvalidRuleSkipped ==
  /\ call.fn = "import" =>
       /\ result.kind = "value"
       /\ result.PATTERNS = ValidRules(call.raw)
  /\ call.fn = "main" => result.kind = "value"

TriggersReturnCounts == runEnd # "raised"

\* C23 (as claimed): a scan's count goes up by exactly the number of events
\* its store step newly inserted: by one when the upsert created the record
\* and not at all when the fingerprint was already stored, so that a scan of
\* content already stored returns 0.
CountIsNewlyInserted ==
  [][\A p \in Procs :
       (\/ pc[p] = "upsert" /\ pc'[p] # "upsert"
        \/ pc[p] = "t_store" /\ todo'[p] # todo[p])
       => count'[p] - count[p] = Cardinality(events') - Cardinality(events)]_vars

\* C24 (as claimed): two conversions of the same stored event give the same
\* output, the order of the tags included, whether one process makes them
\* both or two processes make one each.
EcsBitStable ==
  call.fn = "to_ecs" => result.v[1] = result.v[2]

\* C25 (as claimed): while a stream is open, every stored event that was
\* inserted after the stream was opened and matches its filters is pushed
\* on it in the end, and no event is pushed twice.
StreamPushesEachOnce ==
  /\ [](\A f \in AllFps : lpc = "streaming" => returned[f] <= 1)
  /\ \A f \in AllFps :
       (lpc = "streaming" /\ \E d \in events :
          /\ d.fingerprint = f
          /\ query.platform # "" => d.platform = Lower(query.platform)
          /\ query.severity # "" => Lower(d.severity) = Lower(query.severity))
       ~> (returned[f] = 1)

\* C26 (as claimed): a page the export walker is about to hand to the sink
\* holds only events detected strictly after the cursor it was fetched
\* with, in ascending order of detection time.
PagesAscendAfterCursor ==
  wpc = "send" =>
    /\ cur # NoCursor => \A i \in 1..Len(page) : page[i].timestamp.t > cur.t
    /\ \A i, j \in 1..Len(page) : i < j => page[i].timestamp.t <= page[j].timestamp.t

\* C27: over a store that does not change, a run_export whose fetches and
\* sends all return comes back to its caller: every page it goes on from
\* moves its cursor strictly down in detection time, it ends without an
\* exception only at a page without events or without a next_cursor, and
\* whenever it is running it is idle again later.
RunTerminates ==
  /\ [][/\ (wpc = "send" /\ wpc' = "fetch" /\ cur # NoCursor) => cur'.t < cur.t
        /\ (runEnd # "done" /\ runEnd' = "done") =>
             \/ wpc = "fetch" /\ page' = << >>
             \/ wpc = "send" /\ nextCur = NoCursor]_vars
  /\ (wpc # "idle") ~> (wpc = "idle")

\* C27 witness: a run went through two pages or more, persisted a cursor on
\* the way, met the empty page and returned
WalkedToTheEnd ==
  /\ wpc = "idle" /\ runEnd = "done"
  /\ cursorStore # NoCursor
  /\ ~sendFailed
  /\ Cardinality({f \in AllFps : sentCount[f] >= 1}) >= 2

\* C28: with two run_export invocations on one destination key running
\* concurrently, the persisted cursor never returns to a position of the walk
\* before one already persisted (the walk goes from the newest event towards
\* the oldest, so a later position is an earlier found_at), also when one of
\* the invocations raises midway
CursorNeverGoesBack ==
  [][cursorStore # NoCursor =>
       /\ cursorStore' # NoCursor
       /\ ParseIso(cursorStore').t <= ParseIso(cursorStore).t]_vars

\* the order low < medium < high < critical of the severities
SeverityOrder(sev) ==
  CASE Lower(sev) = "low" -> 1
    [] Lower(sev) = "medium" -> 2
    [] Lower(sev) = "high" -> 3
    [] OTHER -> 4

\* C29: a ticket sink calls its remote system for an event only if its flag
\* is on with its credentials configured and the event's severity is at or
\* above the configured minimum in the order low < medium < high < critical;
\* otherwise the call returns None, makes no remote call and writes no status.
TicketOnlyAtThreshold ==
  [][\A p \in Procs, s \in TicketSinks :
       (/\ pc[p] = s /\ pc'[p] # s /\ direct[p]
        /\ ~(cfg[s].on /\ SeverityOrder(ev[p].severity) >= SeverityOrder(cfg[s].min)))
       => /\ remote' = remote
          /\ events' = events
          /\ retval'[p] = Outcome(s, ReturnNone)]_vars

\* the destination the first routing key that yields one gives, in the order
\* rule, platform, severity, else the default; yields(v) is what a table value
\* resolves to ("" when it names no destination)
FirstDestination(e, table, default, yields(_)) ==
  LET keys == RoutingKeys(e)
      hits == {i \in 1..Len(keys) : keys[i] \in DOMAIN table /\ yields(table[keys[i]]) # ""}
  IN  IF hits = {} THEN yields(default)
      ELSE yields(table[keys[CHOOSE i \in hits : \A j \in hits : i <= j]])

\* C30: an alert sink that is enabled and not stopped by its dedupe marker
\* goes on to post to the destination of the first routing key that yields
\* one, in the order rule:<primary label>, platform:<platform>,
\* severity:<severity>, else to the configured default; when nothing
\* resolves it posts nothing and sets no marker.
AlertRouting ==
  [][\A p \in Procs :
       /\ (/\ pc[p] = "hook" /\ pc'[p] # "hook" /\ cfg.hook.on
           /\ ~DedupeSkips(events, ev[p].fingerprint, "hook", dedupe[p]))
          => LET url == FirstDestination(ev[p], cfg.hook.routing, cfg.hook.default, Strip)
             IN  IF url = ""
                 THEN pc'[p] # "hook_post" /\ events' = events /\ remote' = remote
                 ELSE pc'[p] = "hook_post" /\ target'[p] = url
       /\ (/\ pc[p] = "slack" /\ pc'[p] # "slack" /\ cfg.slack.on
           /\ ~DedupeSkips(events, ev[p].fingerprint, "slack", dedupe[p]))
          => \E lookup \in {"found", "missing", "raise"} :
               LET Resolve(ref) == _resolve_channel(ref, lookup)
                   ch == FirstDestination(ev[p], cfg.slack.routing, cfg.slack.default,
                                          Resolve)
               IN  IF ch \in {"", "RAISE"}
                   THEN pc'[p] # "slack_post" /\ events' = events /\ remote' = remote
                   ELSE pc'[p] = "slack_post" /\ target'[p] = ch]_vars

\* the call of sink s by process p ends here as a failure: no further
\* attempt, the caller gets no identifier, the store is as it was
FailedFor(p, s) ==
  /\ pc'[p] \notin {s, PostPc(s)}
  /\ events' = events
  /\ direct[p] => retval'[p].kind \in {"None", "raise"}

\* the create request of ticket sink s is made for the event of process p
CreateCalled(p, s) ==
  /\ Eligible(s, ev[p])
  /\ ev[p].status[StatusKey(s)] = Unset
  /\ cfg.dashboard_declared

RetryLoopsEnd ==
  /\ [](\A p \in Procs :
          /\ tries[p] <= 3
          /\ pc[p] = "fetch" => tries[p] < ConnectorRetries)
  /\ [][\A d \in events : \E e \in events' : e.fingerprint = d.fingerprint]_vars
  /\ \A p \in Procs :
       /\ (pc[p] = "slack_post") ~> (pc[p] # "slack_post")
       /\ (pc[p] = "hook_post") ~> (pc[p] # "hook_post")
       /\ (pc[p] = "fetch" /\ tries[p] > 0) ~> (tries[p] = 0)

\* two loops are at their last attempt: a post of an alert sink after three
\* failures, the history call of a scan after two
LastAttempts ==
  /\ \E p \in Procs : pc[p] \in {"hook_post", "slack_post"} /\ tries[p] = 3
  /\ \E p \in Procs : pc[p] = "fetch" /\ tries[p] = ConnectorRetries - 1

OwnFields(f) ==
  {StatusKey(IF pc[p] = "slack_post" THEN "slack"
             ELSE IF pc[p] = "hook_post" THEN "hook" ELSE pc[p]) :
     p \in {q \in Procs : /\ pc[q] \in Sinks \cup {"slack_post", "hook_post"}
                          /\ pc'[q] # pc[q]
                          /\ ev[q].fingerprint = f}}

\* C34: a sink write to a stored event changes only the status field(s) of
\* that sink and status.last_sync_at: every other marker and the fingerprint,
\* platform, container, detections, severity, snippet, found_at and
\* source_meta of every stored event are as before, also when two sinks work
\* on the same event at the same time.
SinkWritesOwnFields ==
  [][\A d \in events \ events' :
       \E e \in events' \ events :
         /\ e.fingerprint = d.fingerprint
         /\ [e EXCEPT !.status = d.status] = d
         /\ \A k \in DOMAIN d.status :
              e.status[k] # d.status[k] => k \in OwnFields(d.fingerprint) \cup {"last_sync_at"}]_vars

\* two sinks have written their markers on the same stored event
TwoMarkersOnOneEvent ==
  \E d \in events :
    Cardinality({k \in DOMAIN d.status \ {"last_sync_at"} : d.status[k] # Unset}) >= 2

RedeliverOnePerMatching ==
  [][\A p \in Procs :
       /\ (pc[p] = "idle" /\ pc'[p] = "deliver" /\ direct'[p]) => ev'[p] \in events
       /\ (pc[p] = "idle" /\ pc'[p] = "deliver") => deliveries' = deliveries /\ posts' = posts
       /\ (pc[p] = "deliver" /\ direct[p] /\ pc'[p] # "deliver") =>
            /\ \A w \in webhooks :
                 Cardinality({i \in (Len(deliveries) + 1)..Len(deliveries') :
                                /\ deliveries'[i].webhook_id = w.id
                                /\ deliveries'[i].event_fingerprint = ev[p].fingerprint}) =
                   IF w.enabled /\ match_filters(ev[p], w.filters) THEN 1 ELSE 0
            /\ Len(deliveries') >= Len(deliveries)
            /\ \A i \in 1..Len(deliveries) : deliveries'[i] = deliveries[i]
            /\ events' = events]_vars

\* the stored events that came from source record r
EventsOf(r) ==
  {e \in events : /\ Lower(e.platform) = r.platform
                  /\ e.container.id = r.cid
                  /\ e.source_meta.pointer = r.key}

\* C37: in the event of a scanned record no rule label appears twice and
\* each detection carries the first match of its rule; all the labels that
\* fire on one record are in a single event; a record on which no rule
\* matches has no event and no sink is running for it.
OneEventPerRecord ==
  /\ \A r \in source :
       /\ Cardinality(EventsOf(r)) <= 1
       /\ (\A k \in 1..Len(PATTERNS) : \A i \in 1..Len(r.text) :
             r.text[i] \notin PATTERNS[k].rx) => EventsOf(r) = {}
       /\ \A e \in EventsOf(r) :
            /\ \A i, j \in 1..Len(e.detections) :
                 e.detections[i].label = e.detections[j].label => i = j
            /\ \E v \in source :
                 /\ v.platform = r.platform /\ v.cid = r.cid /\ v.key = r.key
                 /\ \A k \in 1..Len(PATTERNS) :
                      (\E i \in 1..Len(v.text) : v.text[i] \in PATTERNS[k].rx)
                      <=> (\E d \in 1..Len(e.detections) :
                             /\ e.detections[d].label = PATTERNS[k].label
                             /\ \E i \in 1..Len(v.text) :
                                  /\ v.text[i] = e.detections[d].match
                                  /\ v.text[i] \in PATTERNS[k].rx
                                  /\ \A j \in 1..(i - 1) : v.text[j] \notin PATTERNS[k].rx)
  /\ \A p \in Procs :
       (~direct[p] /\ pc[p] \in FanOutPcs \cup {"upsert"}) => ev[p].detections # << >>

\* what the fingerprint is to tell apart: platform, container id, pointer
\* and the set of matched strings
LeakOf(in) ==
  <<in.platform, in.container.id, Pointer(in.source_meta), Matches(in.detections)>>

\* the leaks among the inputs
Leaks == {LeakOf(in) : in \in MakeEventInputs}

\* C38: make_event inputs that differ in platform, container id, pointer or
\* set of matched strings get different fingerprints, also when a match,
\* id or pointer contains ',' or '|'.
FingerprintSeparatesLeaks ==
  call # NoCall =>
    \A l \in Leaks :
      l # LeakOf(call.args) =>
        sha256(fp_basis(l[1], [id |-> l[2]], CanonicalDetections(l[4]), [pointer |-> l[3]]))
          # result.v.fingerprint

\* C39: the incremental cursor of a scan moves only past content that was
\* fetched and scanned: an issue or page with a leak that no scan has had
\* in its loop is still covered by the query of the next scan.
CursorSkipsNothing ==
  \A r \in source :
    (/\ Detect(r.text) # << >>
     /\ isNew[ScanEvent(r, now).fingerprint].new
          + isNew[ScanEvent(r, now).fingerprint].dup = 0)
    => Covered(r)

\* C40: when a scan was stopped after it inserted an event and before any
\* sink was called for it, a later scan that comes to the same leak starts
\* the fan-out for it, so no stored event stays without a fan-out attempt.
InterruptedFanOutResumes ==
  [][\A p \in Procs :
       (/\ pc[p] = "upsert"
        /\ pc'[p] # "upsert"
        /\ Stored(events, ev[p].fingerprint) # {}
        /\ called[ev[p].fingerprint] = {}
        /\ \A q \in Procs \ {p} : ev[q].fingerprint # ev[p].fingerprint)
       => pc'[p] = "jira"]_vars

====
